---- MODULE Spec2Model ----
(***************************************************************************)
(* kkuzar/blog_system: the edit coordinator (service.Service), the history *)
(* log, the caches and the websocket hub, as a state machine.              *)
(*                                                                         *)
(* Every store access of a service call is one step of the calling         *)
(* session's goroutine, so calls of different sessions interleave between  *)
(* any two store accesses, as they do in the Go program.                   *)
(***************************************************************************)
EXTENDS Integers, Sequences, FiniteSets, TLC

\* ------------------------------------------------------------------ bounds
\* Service calls started in one behaviour (CreatePost not counted).
MaxCalls == 2
\* cfg.Snapshot.IntervalChanges: a snapshot entry every N registered changes.
SnapshotInterval == 2
\* Capacity of a client's send channel.
QueueCap == 1
\* subscribe and unsubscribe requests made in one behaviour.
MaxSubs == 1

\* ------------------------------------------------------------- the inputs
Users == {"u1", "u2"}
\* The websocket connections; each has a read pump, which runs the handlers
\* of its requests one after the other, and a write pump.
Sessions == {"c1", "c2", "c3"}
\* The sessions whose requests reach the service (c3 only subscribes).
Callers == {"c1", "c2"}
\* The user each session's token names.
TokenUser == [s \in Sessions |-> IF s = "c3" THEN "u2" ELSE "u1"]
ItemIds == {"i1"}
\* The user who creates the items; the other user owns nothing.
Creator == "u1"

NoPath == <<>>
NoUser == ""

\* A text is a sequence of one-character strings; "\n" ends a line.
InitialContent == <<"A">>

InsB == [line |-> 0, column |-> 1, removed |-> 0, text |-> <<"B">>]
BadAnchorChange == [line |-> 1, column |-> 0, removed |-> 0, text |-> <<"B">>]

\* The change batches a client may submit: one change, two changes, and a
\* batch whose second change has its anchor outside the document.
Batches == {<<InsB>>, <<InsB, InsB>>, <<InsB, BadAnchorChange>>}

\* The batches submitted where only the hub is looked at.
HubBatches == {<<InsB>>}

NoChange == [line |-> 0, column |-> 0, removed |-> 0, text |-> <<>>]

\* ------------------------------------------------------------------ state
VARIABLES
    meta,            \* metadata store: item id -> Post record
    storage,         \* blob store: key -> object
    cacheMeta,       \* cache: item id -> cached Post record
    cacheContent,    \* cache: <<item id, version>> -> cached content
    history,         \* history collection, in insertion order; a log's id is its index
    changeCounters,  \* Service.changeCounters
    counterMutex,    \* Service.counterMutex: "free", or the session whose call locked it
    interval,        \* cfg.Snapshot.IntervalChanges
    historyItems,    \* DynamoDB: the items LogAction writes for the query by item
    th,              \* per caller: the service call it is running
    calls,           \* service calls started so far
    versionContent,  \* per item: the content each committed version was given
    casLog,          \* per item: the successful metadata updates, in commit order
    clients,         \* Hub.clients
    subscribers,     \* hub: item key -> subscribed sessions
    send,            \* Client.send of each session: the queued messages
    conn,            \* per session: "new", "open" (registered), "closed" (send closed)
    unregistering,   \* sessions with a goroutine blocked on hub.unregister <- c
    userID,          \* Client.userID (NoUser until authenticated)
    panicked,        \* a goroutine sent on a closed channel: the process is gone
    subReqs,         \* subscribe and unsubscribe requests made so far
    received,        \* per session: versions of the content_changed enqueued to it
    pump             \* per session: its read pump, its write pump and its connection

svcVars == <<meta, storage, cacheMeta, cacheContent, history, changeCounters,
             counterMutex, interval, historyItems, calls, versionContent, casLog>>

hubVars == <<clients, subscribers, send, conn, unregistering, userID,
             panicked, subReqs, received, pump>>

vars == <<svcVars, th, hubVars>>

\* --------------------------------------------------------------- records
NoMeta == [exists |-> FALSE, userId |-> NoUser, version |-> 0, s3Path |-> NoPath]
Post(u, v, p) == [exists |-> TRUE, userId |-> u, version |-> v, s3Path |-> p]

NoObject == [present |-> FALSE, data |-> <<>>]
Object(c) == [present |-> TRUE, data |-> c]

NoLog == [action |-> "none", userId |-> NoUser, itemId |-> "", itemVersion |-> 0,
          changeData |-> NoChange, s3PathBefore |-> NoPath, s3PathAfter |-> NoPath,
          revertedToLogId |-> 0]

HistoryLog(a, u, i, v) == [NoLog EXCEPT !.action = a, !.userId = u, !.itemId = i,
                                        !.itemVersion = v]

\* The timestamps of the history entries: 0 is the time the items were
\* created, and each later service call reads the clock once.
MaxTime == 3

Times == 0..MaxTime

\* The items whose history the adapters are looked at with.
LogItemIds == ItemIds \cup {"i2"}

\* The items of the DynamoDB table with the partition key HISTORY#<item id>
\* and the sort key HISTORY#<timestamp>: at most one item per key, holding
\* the id of a log (0: no item).
HistoryKeys == LogItemIds \X Times

NoHistoryItems == [key \in HistoryKeys |-> 0]

\* An item is created at version 1 and each call commits at most once.
Versions == 1..(MaxCalls + 1)

generateS3Path(u, i) == <<"post", u, i>>

Keys == {generateS3Path(u, i) : u \in Users, i \in ItemIds}

\* A bearer token: the signing method and whether the signature verifies
\* with jwtSecret, whether it has expired, and its sub claim.
NoToken == [alg |-> "", signed |-> FALSE, expired |-> FALSE, sub |-> NoUser]

Idle == [pc |-> "idle", op |-> "none", user |-> NoUser, item |-> "",
         base |-> 0, changes |-> <<>>, logId |-> 0, targetLog |-> NoLog,
         meta |-> NoMeta, s3Path |-> NoPath, curVer |-> 0,
         content |-> <<>>, newContent |-> <<>>, k |-> 0,
         list |-> <<>>, touched |-> {}, err |-> "", ver |-> 0, out |-> <<>>,
         now |-> 0, seq |-> 0, token |-> NoToken, retry |-> 0]

\* A session whose readPump and writePump run on an open connection.
Pumping == [read |-> "running", write |-> "running", sock |-> "open"]

\* A call's terminal state: the values it returns.
Return(r, e, v, c) == [r EXCEPT !.pc = "done", !.err = e, !.ver = v, !.out = c]

Touch(r, what) == [r EXCEPT !.touched = @ \cup {what}]

\* ------------------------------------------------------- change applier
Newlines(text) == {p \in 1..Len(text) : text[p] = "\n"}

LineCount(text) == Cardinality(Newlines(text)) + 1

\* Offset (number of codepoints before it) of the start of line l.
LineStart(text, l) ==
    IF l = 0 THEN 0
    ELSE CHOOSE p \in Newlines(text) :
            Cardinality({q \in Newlines(text) : q <= p}) = l

LineLen(text, l) ==
    LET s == LineStart(text, l)
        after == {p \in Newlines(text) : p > s}
    IN  IF after = {} THEN Len(text) - s
        ELSE (CHOOSE p \in after : \A q \in after : p <= q) - 1 - s

ApplyFailure == <<"ApplyError">>

applyChange(text, c) ==
    IF c.line >= LineCount(text) THEN ApplyFailure
    ELSE IF c.column > LineLen(text, c.line) THEN ApplyFailure
    ELSE LET start == LineStart(text, c.line) + c.column
             end == start + c.removed
         IN  IF end > Len(text) THEN ApplyFailure
             ELSE SubSeq(text, 1, start) \o c.text \o SubSeq(text, end + 1, Len(text))

RECURSIVE applyChanges(_, _)
applyChanges(text, changes) ==
    IF changes = <<>> THEN text
    ELSE LET t == applyChange(text, Head(changes))
         IN  IF t = ApplyFailure THEN ApplyFailure
             ELSE applyChanges(t, Tail(changes))

\* ------------------------------------------------------------------ init
Init ==
    /\ meta = [i \in ItemIds |-> NoMeta]
    /\ storage = [k \in Keys |-> NoObject]
    /\ cacheMeta = [i \in ItemIds |-> NoMeta]
    /\ cacheContent = [iv \in ItemIds \X Versions |-> NoObject]
    /\ history = <<>>
    /\ changeCounters = [i \in ItemIds |-> 0]
    /\ interval = SnapshotInterval
    /\ counterMutex = "free"
    /\ historyItems = NoHistoryItems
    /\ th = [s \in Sessions |-> Idle]
    /\ calls = 0
    /\ versionContent = [i \in ItemIds |-> <<>>]
    /\ casLog = [i \in ItemIds |-> <<>>]
    /\ clients = {}
    /\ subscribers = [i \in ItemIds |-> {}]
    /\ send = [s \in Sessions |-> <<>>]
    /\ conn = [s \in Sessions |-> "new"]
    /\ unregistering = {}
    /\ userID = [s \in Sessions |-> NoUser]
    /\ panicked = FALSE
    /\ subReqs = 0
    /\ received = [s \in Sessions |-> <<>>]
    /\ pump = [s \in Sessions |-> Pumping]


\* ------------------------------------------------- database adapter (CAS)
\* Mutant: the update filter names the document only, not its version.
UpdatePostMetaErr_NoVersionFilter(stored, expected) ==
    IF ~stored.exists THEN "NotFound" ELSE "ok"

\* UpdatePostMeta: filter {_id, version: post.Version}, $inc version by one.
UpdatePostMetaErr(stored, expected) ==
    IF ~stored.exists THEN "NotFound"
    ELSE IF stored.version # expected THEN "VersionMismatch"
    ELSE "ok"

\* Mutant: the update sets the version to the expected one ($set, no $inc).
UpdatePostMeta_NoIncrement(stored, expected, path) ==
    IF UpdatePostMetaErr(stored, expected) = "ok"
    THEN [stored EXCEPT !.version = expected - 1, !.s3Path = path]
    ELSE stored

UpdatePostMeta(stored, expected, path) ==
    IF UpdatePostMetaErr(stored, expected) = "ok"
    THEN [stored EXCEPT !.version = @ + 1, !.s3Path = path]
    ELSE stored

\* LogAction: insert one entry; its id is generated by the store.
LogAction(entry) == Append(history, entry)

\* ------------------------------------------------------ service: helpers
Set(s, r) == th' = [th EXCEPT ![s] = r]

\* Mutant: the ownership test is skipped.
IsOwner_Skipped(m, user) == TRUE

\* Ownership test made by every coordinator operation on the loaded metadata.
IsOwner(m, user) == m.userId = user

\* The code following getItemMetaWithCache in each operation: the
\* ownership and version checks, and the locals taken from the metadata.
Loaded(r0, m) ==
    LET r == [r0 EXCEPT !.meta = m] IN
    IF ~IsOwner(m, r.user) THEN Return(r, "PermissionDenied", 0, <<>>)
    ELSE CASE r.op = "apply" ->
                IF m.version # r.base
                THEN Return(r, "VersionConflict", m.version, <<>>)
                ELSE [r EXCEPT !.curVer = m.version, !.pc = "content_cache",
                               !.s3Path = IF m.s3Path = NoPath
                                          THEN generateS3Path(r.user, r.item)
                                          ELSE m.s3Path]
           [] r.op = "get" ->
                [r EXCEPT !.curVer = m.version, !.s3Path = m.s3Path,
                          !.pc = "content_cache"]
           [] r.op = "delete" ->
                [r EXCEPT !.curVer = m.version, !.s3Path = m.s3Path,
                          !.pc = "del_meta"]
           [] r.op = "history" -> [r EXCEPT !.pc = "list_history"]
           [] r.op = "revert" ->
                IF m.s3Path = NoPath
                THEN Return(r, "Internal", 0, <<>>)
                ELSE [r EXCEPT !.curVer = m.version, !.s3Path = m.s3Path,
                               !.pc = "rv_download"]

\* The code following the materialization of the current content in
\* ApplyItemChanges: run the change applier.
GotContent(r, c) ==
    LET n == applyChanges(c, r.changes) IN
    IF n = ApplyFailure THEN Return(r, "ApplyFailed", 0, <<>>)
    ELSE [r EXCEPT !.content = c, !.newContent = n, !.pc = "upload"]

\* ------------------------------------------- service: getItemMetaWithCache
MetaCacheGet(s) ==
    LET r == th[s] IN
    /\ r.pc = "meta_cache"
    /\ IF cacheMeta[r.item].exists
       THEN Set(s, Loaded(r, cacheMeta[r.item]))
       ELSE Set(s, [r EXCEPT !.pc = "meta_db"])
    /\ UNCHANGED <<hubVars, counterMutex, interval, historyItems, meta, storage, cacheMeta, cacheContent, history,
                   changeCounters, calls, versionContent, casLog>>

MetaDbGet(s) ==
    LET r == th[s] IN
    /\ r.pc = "meta_db"
    /\ IF meta[r.item].exists
       THEN Set(s, [r EXCEPT !.meta = meta[r.item], !.pc = "meta_set"])
       ELSE IF r.op = "delete"
            THEN Set(s, Return(r, "ok", 0, <<>>))
            ELSE Set(s, Return(r, "NotFound", 0, <<>>))
    /\ UNCHANGED <<hubVars, counterMutex, interval, historyItems, meta, storage, cacheMeta, cacheContent, history,
                   changeCounters, calls, versionContent, casLog>>

MetaCacheSet(s) ==
    LET r == th[s] IN
    /\ r.pc = "meta_set"
    /\ cacheMeta' = [cacheMeta EXCEPT ![r.item] = r.meta]
    /\ Set(s, Loaded(Touch(r, "cache"), r.meta))
    /\ UNCHANGED <<hubVars, counterMutex, interval, historyItems, meta, storage, cacheContent, history, changeCounters,
                   calls, versionContent, casLog>>

\* ----------------------- service: content from cache, then from the blob
ContentCacheGet(s) ==
    LET r == th[s]
        e == cacheContent[<<r.item, r.curVer>>]
    IN
    /\ r.pc = "content_cache"
    /\ IF e.present
       THEN IF r.op = "get"
            THEN Set(s, Return(r, "ok", r.curVer, e.data))
            ELSE Set(s, GotContent(r, e.data))
       ELSE IF r.s3Path = NoPath
            THEN Set(s, Return(r, "ok", r.curVer, <<>>))
            ELSE Set(s, [r EXCEPT !.pc = "download"])
    /\ UNCHANGED <<hubVars, counterMutex, interval, historyItems, meta, storage, cacheMeta, cacheContent, history,
                   changeCounters, calls, versionContent, casLog>>

DownloadFile(s) ==
    LET r == th[s]
        o == storage[r.s3Path]
    IN
    /\ r.pc = "download"
    /\ IF r.op = "get"
       THEN IF o.present
            THEN Set(s, [r EXCEPT !.content = o.data, !.pc = "content_set"])
            ELSE Set(s, Return(r, "ok", r.curVer, <<>>))
       ELSE Set(s, GotContent(r, IF o.present THEN o.data ELSE <<>>))
    /\ UNCHANGED <<hubVars, counterMutex, interval, historyItems, meta, storage, cacheMeta, cacheContent, history,
                   changeCounters, calls, versionContent, casLog>>

ContentCacheSet(s) ==
    LET r == th[s] IN
    /\ r.pc = "content_set"
    /\ cacheContent' = [cacheContent EXCEPT ![<<r.item, r.curVer>>] = Object(r.content)]
    /\ Set(s, Return(Touch(r, "cache"), "ok", r.curVer, r.content))
    /\ UNCHANGED <<hubVars, counterMutex, interval, historyItems, meta, storage, cacheMeta, history, changeCounters,
                   calls, versionContent, casLog>>

\* --------------------------------- service: blob write, then metadata CAS
UploadFile(s) ==
    LET r == th[s] IN
    /\ r.pc = "upload"
    /\ storage' = [storage EXCEPT ![r.s3Path] = Object(r.newContent)]
    /\ Set(s, [Touch(r, "blob") EXCEPT !.pc = "cas"])
    /\ UNCHANGED <<hubVars, counterMutex, interval, historyItems, meta, cacheMeta, cacheContent, history, changeCounters,
                   calls, versionContent, casLog>>

\* Step 6 of ApplyItemChanges and of RevertToAction: s.db.UpdatePostMeta and
\* the handling of its error.
UpdateMeta(s) ==
    LET r == th[s]
        e == UpdatePostMetaErr(meta[r.item], r.curVer)
    IN
    /\ r.pc = "cas"
    /\ meta' = [meta EXCEPT ![r.item] = UpdatePostMeta(@, r.curVer, r.s3Path)]
    /\ IF e = "ok"
       THEN /\ Set(s, [Touch(r, "meta") EXCEPT !.pc = "cache_del_meta"])
            /\ versionContent' = [versionContent EXCEPT
                                    ![r.item] = Append(@, r.newContent)]
            /\ casLog' = [casLog EXCEPT ![r.item] =
                            Append(@, [by |-> s, op |-> r.op, base |-> r.curVer,
                                       new |-> meta'[r.item].version,
                                       changes |-> Len(r.changes)])]
       ELSE /\ IF r.op = "apply" /\ e = "VersionMismatch"
               THEN Set(s, [r EXCEPT !.pc = "get_version"])
               ELSE Set(s, Return(r, "Inconsistent", 0, <<>>))
            /\ UNCHANGED <<hubVars, counterMutex, interval, historyItems, calls, versionContent, casLog>>
    /\ UNCHANGED <<hubVars, counterMutex, interval, historyItems, storage, cacheMeta, cacheContent, history, changeCounters, calls>>

\* getItemVersion after a version mismatch: the stored version.
getItemVersion(s) ==
    LET r == th[s] IN
    /\ r.pc = "get_version"
    /\ IF meta[r.item].exists
       THEN Set(s, Return(r, "VersionConflict", meta[r.item].version, <<>>))
       ELSE Set(s, Return(r, "Inconsistent", 0, <<>>))
    /\ UNCHANGED <<hubVars, counterMutex, interval, historyItems, meta, storage, cacheMeta, cacheContent, history,
                   changeCounters, calls, versionContent, casLog>>

\* ------------------------------------------- service: post-commit caching
CacheDeleteItemMeta(s) ==
    LET r == th[s] IN
    /\ r.pc = "cache_del_meta"
    /\ cacheMeta' = [cacheMeta EXCEPT ![r.item] = NoMeta]
    /\ Set(s, [Touch(r, "cache") EXCEPT !.pc = "cache_inval"])
    /\ UNCHANGED <<hubVars, counterMutex, interval, historyItems, meta, storage, cacheContent, history, changeCounters,
                   calls, versionContent, casLog>>

CacheInvalidateItemContent(s) ==
    LET r == th[s] IN
    /\ r.pc = "cache_inval"
    /\ cacheContent' = [iv \in DOMAIN cacheContent |->
                          IF iv[1] = r.item THEN NoObject ELSE cacheContent[iv]]
    /\ Set(s, [r EXCEPT !.pc = IF r.op = "delete" THEN "reset_counter"
                               ELSE "cache_set_new"])
    /\ UNCHANGED <<hubVars, counterMutex, interval, historyItems, meta, storage, cacheMeta, history, changeCounters,
                   calls, versionContent, casLog>>

CacheSetNewContent(s) ==
    LET r == th[s] IN
    /\ r.pc = "cache_set_new"
    /\ cacheContent' = [cacheContent EXCEPT
                          ![<<r.item, r.curVer + 1>>] = Object(r.newContent)]
    /\ Set(s, [r EXCEPT !.pc = IF r.op = "revert" THEN "log_revert"
                               ELSE IF r.changes = <<>> THEN "snapshot"
                               ELSE "log_patch",
                        !.k = 1])
    /\ UNCHANGED <<hubVars, counterMutex, interval, historyItems, meta, storage, cacheMeta, history, changeCounters,
                   calls, versionContent, casLog>>

\* ------------------------------------------ service: history and snapshot
\* Mutant: the patch entries are tagged with the version the edit started
\* from.
LogPatch_BaseVersion(s) ==
    LET r == th[s] IN
    /\ r.pc = "log_patch"
    /\ history' = LogAction([HistoryLog("patch", r.user, r.item, r.curVer)
                               EXCEPT !.changeData = r.changes[r.k]])
    /\ Set(s, IF r.k < Len(r.changes)
              THEN [Touch(r, "history") EXCEPT !.k = @ + 1]
              ELSE [Touch(r, "history") EXCEPT !.pc = "snapshot"])
    /\ UNCHANGED <<hubVars, counterMutex, interval, historyItems, meta, storage, cacheMeta, cacheContent, changeCounters,
                   calls, versionContent, casLog>>

LogPatch(s) ==
    LET r == th[s] IN
    /\ r.pc = "log_patch"
    /\ history' = LogAction([HistoryLog("patch", r.user, r.item, r.curVer + 1)
                               EXCEPT !.changeData = r.changes[r.k]])
    /\ Set(s, IF r.k < Len(r.changes)
              THEN [Touch(r, "history") EXCEPT !.k = @ + 1]
              ELSE [Touch(r, "history") EXCEPT !.pc = "snapshot"])
    /\ UNCHANGED <<hubVars, counterMutex, interval, historyItems, meta, storage, cacheMeta, cacheContent, changeCounters,
                   calls, versionContent, casLog>>

\* Mutant: the counter keeps its total when a snapshot is taken.
handleSnapshotting_NoReset(s) ==
    LET r == th[s]
        count == changeCounters[r.item] + Len(r.changes)
    IN
    /\ r.pc = "snapshot"
    /\ IF interval <= 0
       THEN /\ Set(s, Return(r, "ok", r.curVer + 1, <<>>))
            /\ UNCHANGED changeCounters
       ELSE /\ changeCounters' = [changeCounters EXCEPT ![r.item] = count]
            /\ Set(s, IF count >= interval THEN [r EXCEPT !.pc = "log_snapshot"]
                      ELSE Return(r, "ok", r.curVer + 1, <<>>))
    /\ UNCHANGED <<hubVars, counterMutex, interval, historyItems, meta, storage, cacheMeta, cacheContent, history,
                   calls, versionContent, casLog>>

\* handleSnapshotting, the section under counterMutex.
handleSnapshotting(s) ==
    LET r == th[s]
        count == changeCounters[r.item] + Len(r.changes)
    IN
    /\ r.pc = "snapshot"
    /\ IF interval <= 0
       THEN /\ Set(s, Return(r, "ok", r.curVer + 1, <<>>))
            /\ UNCHANGED changeCounters
       ELSE IF count >= interval
            THEN /\ changeCounters' = [changeCounters EXCEPT ![r.item] = 0]
                 /\ Set(s, [r EXCEPT !.pc = "log_snapshot"])
            ELSE /\ changeCounters' = [changeCounters EXCEPT ![r.item] = count]
                 /\ Set(s, Return(r, "ok", r.curVer + 1, <<>>))
    /\ UNCHANGED <<hubVars, counterMutex, interval, historyItems, meta, storage, cacheMeta, cacheContent, history,
                   calls, versionContent, casLog>>

\* Mutant: taking the snapshot drops the item's cached content.
LogSnapshot_Invalidates(s) ==
    LET r == th[s] IN
    /\ r.pc = "log_snapshot"
    /\ history' = LogAction([HistoryLog("snapshot", r.user, r.item, r.curVer + 1)
                               EXCEPT !.s3PathAfter = r.s3Path])
    /\ cacheContent' = [iv \in DOMAIN cacheContent |->
                          IF iv[1] = r.item THEN NoObject ELSE cacheContent[iv]]
    /\ Set(s, Return(Touch(r, "history"), "ok", r.curVer + 1, <<>>))
    /\ UNCHANGED <<hubVars, counterMutex, interval, historyItems, meta, storage, cacheMeta, changeCounters,
                   calls, versionContent, casLog>>

LogSnapshot(s) ==
    LET r == th[s] IN
    /\ r.pc = "log_snapshot"
    /\ history' = LogAction([HistoryLog("snapshot", r.user, r.item, r.curVer + 1)
                               EXCEPT !.s3PathAfter = r.s3Path])
    /\ Set(s, Return(Touch(r, "history"), "ok", r.curVer + 1, <<>>))
    /\ UNCHANGED <<hubVars, counterMutex, interval, historyItems, meta, storage, cacheMeta, cacheContent, changeCounters,
                   calls, versionContent, casLog>>

\* --------------------------------------------------- service: RevertToAction
\* Mutant: the action of the target log is not checked.
GetHistoryLogByID_AnyAction(s) ==
    LET r == th[s]
        l == IF r.logId \in DOMAIN history THEN history[r.logId] ELSE NoLog
    IN
    /\ r.pc = "rv_getlog"
    /\ IF l = NoLog
       THEN Set(s, Return(r, "HistoryLogNotFound", 0, <<>>))
       ELSE IF l.s3PathAfter = NoPath
            THEN Set(s, Return([r EXCEPT !.targetLog = l, !.item = l.itemId],
                               "PathMissing", 0, <<>>))
            ELSE Set(s, [r EXCEPT !.targetLog = l, !.item = l.itemId,
                                  !.pc = "meta_cache"])
    /\ UNCHANGED <<hubVars, counterMutex, interval, historyItems, meta, storage, cacheMeta, cacheContent, history,
                   changeCounters, calls, versionContent, casLog>>

\* Steps 1 and 2: fetch the target log and validate it.
GetHistoryLogByID(s) ==
    LET r == th[s]
        l == IF r.logId \in DOMAIN history THEN history[r.logId] ELSE NoLog
    IN
    /\ r.pc = "rv_getlog"
    /\ IF l = NoLog
       THEN Set(s, Return(r, "HistoryLogNotFound", 0, <<>>))
       ELSE IF l.action \notin {"create", "snapshot"}
            THEN Set(s, Return([r EXCEPT !.targetLog = l, !.item = l.itemId],
                               "RevertNotAllowed", 0, <<>>))
            ELSE IF l.s3PathAfter = NoPath
                 THEN Set(s, Return([r EXCEPT !.targetLog = l, !.item = l.itemId],
                                    "PathMissing", 0, <<>>))
                 ELSE Set(s, [r EXCEPT !.targetLog = l, !.item = l.itemId,
                                       !.pc = "meta_cache"])
    /\ UNCHANGED <<hubVars, counterMutex, interval, historyItems, meta, storage, cacheMeta, cacheContent, history,
                   changeCounters, calls, versionContent, casLog>>

\* Step 4: the content of the target state is read at targetLog.S3PathAfter.
DownloadRevertContent(s) ==
    LET r == th[s]
        o == storage[r.targetLog.s3PathAfter]
    IN
    /\ r.pc = "rv_download"
    /\ IF o.present
       THEN Set(s, [r EXCEPT !.newContent = o.data, !.pc = "upload"])
       ELSE Set(s, Return(r, "RevertContentMissing", 0, <<>>))
    /\ UNCHANGED <<hubVars, counterMutex, interval, historyItems, meta, storage, cacheMeta, cacheContent, history,
                   changeCounters, calls, versionContent, casLog>>

\* Mutant: the revert entry does not name the target log.
LogRevert_NoTarget(s) ==
    LET r == th[s] IN
    /\ r.pc = "log_revert"
    /\ history' = LogAction([HistoryLog("revert", r.user, r.item, r.curVer + 1)
                               EXCEPT !.s3PathAfter = r.s3Path])
    /\ Set(s, [Touch(r, "history") EXCEPT !.pc = "reset_counter"])
    /\ UNCHANGED <<hubVars, counterMutex, interval, historyItems, meta, storage, cacheMeta, cacheContent, changeCounters,
                   calls, versionContent, casLog>>

LogRevert(s) ==
    LET r == th[s] IN
    /\ r.pc = "log_revert"
    /\ history' = LogAction([HistoryLog("revert", r.user, r.item, r.curVer + 1)
                               EXCEPT !.s3PathAfter = r.s3Path,
                                      !.revertedToLogId = r.logId])
    /\ Set(s, [Touch(r, "history") EXCEPT !.pc = "reset_counter"])
    /\ UNCHANGED <<hubVars, counterMutex, interval, historyItems, meta, storage, cacheMeta, cacheContent, changeCounters,
                   calls, versionContent, casLog>>

\* delete(s.changeCounters, key) under counterMutex, in RevertToAction and
\* in DeleteItem.
ResetCounter(s) ==
    LET r == th[s] IN
    /\ r.pc = "reset_counter"
    /\ changeCounters' = [changeCounters EXCEPT ![r.item] = 0]
    /\ Set(s, Return(r, "ok", IF r.op = "revert" THEN r.curVer + 1 ELSE 0, <<>>))
    /\ UNCHANGED <<hubVars, counterMutex, interval, historyItems, meta, storage, cacheMeta, cacheContent, history,
                   calls, versionContent, casLog>>

\* ------------------------------------------------------- service: DeleteItem
DeletePostMeta(s) ==
    LET r == th[s] IN
    /\ r.pc = "del_meta"
    /\ meta' = [meta EXCEPT ![r.item] = NoMeta]
    /\ Set(s, [Touch(r, "meta") EXCEPT
                 !.pc = IF r.s3Path # NoPath THEN "del_blob" ELSE "log_delete"])
    /\ UNCHANGED <<hubVars, counterMutex, interval, historyItems, storage, cacheMeta, cacheContent, history, changeCounters,
                   calls, versionContent, casLog>>

DeleteFile(s) ==
    LET r == th[s] IN
    /\ r.pc = "del_blob"
    /\ storage' = [storage EXCEPT ![r.s3Path] = NoObject]
    /\ Set(s, [Touch(r, "blob") EXCEPT !.pc = "log_delete"])
    /\ UNCHANGED <<hubVars, counterMutex, interval, historyItems, meta, cacheMeta, cacheContent, history, changeCounters,
                   calls, versionContent, casLog>>

LogDelete(s) ==
    LET r == th[s] IN
    /\ r.pc = "log_delete"
    /\ history' = LogAction([HistoryLog("delete", r.user, r.item, r.curVer)
                               EXCEPT !.s3PathBefore = r.s3Path])
    /\ Set(s, [Touch(r, "history") EXCEPT !.pc = "cache_del_meta"])
    /\ UNCHANGED <<hubVars, counterMutex, interval, historyItems, meta, storage, cacheMeta, cacheContent, changeCounters,
                   calls, versionContent, casLog>>

\* ------------------------------------------------------- service: GetHistory
\* The ids of the item's entries, newest first.
RECURSIVE ItemLogIds(_, _)
ItemLogIds(i, n) ==
    IF n = 0 THEN <<>>
    ELSE IF history[n].itemId = i THEN <<n>> \o ItemLogIds(i, n - 1)
         ELSE ItemLogIds(i, n - 1)

GetActionHistory(s) ==
    LET r == th[s] IN
    /\ r.pc = "list_history"
    /\ Set(s, [Return(r, "ok", 0, <<>>) EXCEPT !.list = ItemLogIds(r.item, Len(history))])
    /\ UNCHANGED <<hubVars, counterMutex, interval, historyItems, meta, storage, cacheMeta, cacheContent, history,
                   changeCounters, calls, versionContent, casLog>>

\* ------------------------------------------------------- service: CreatePost
\* The new item's id is known to no other session before CreatePost returns,
\* so its store accesses are taken as one step.
CreatePost(s) ==
    \E i \in ItemIds :
        LET u == Creator
            path == generateS3Path(u, i)
        IN
        /\ th[s].pc = "idle"
        /\ versionContent[i] = <<>>
        /\ Set(s, Return([Idle EXCEPT !.op = "create", !.user = u, !.item = i],
                         "ok", 1, <<>>))
        /\ meta' = [meta EXCEPT ![i] = Post(u, 1, path)]
        /\ storage' = [storage EXCEPT ![path] = Object(InitialContent)]
        /\ history' = LogAction([HistoryLog("create", u, i, 1)
                                   EXCEPT !.s3PathAfter = path])
        /\ cacheMeta' = [cacheMeta EXCEPT ![i] = Post(u, 1, path)]
        /\ cacheContent' = [cacheContent EXCEPT ![<<i, 1>>] = Object(InitialContent)]
        /\ versionContent' = [versionContent EXCEPT ![i] = <<InitialContent>>]
        /\ UNCHANGED <<hubVars, counterMutex, interval, historyItems, changeCounters, calls, casLog>>

\* ------------------------------------------------ the calls a session makes
Begin(s, r) ==
    /\ th[s].pc = "idle"
    /\ calls < MaxCalls
    /\ calls' = calls + 1
    /\ Set(s, r)
    /\ UNCHANGED <<hubVars, counterMutex, interval, historyItems, meta, storage, cacheMeta, cacheContent, history,
                   changeCounters, versionContent, casLog>>

Call(u, op, i) == [Idle EXCEPT !.op = op, !.user = u, !.item = i,
                               !.pc = "meta_cache"]

\* The base version a client submits is the version stored when it sends the
\* request (1 for an item that does not exist); it is stale by the time the
\* call reads the metadata if another call committed in between.
BaseVersions(i) == IF meta[i].exists THEN {meta[i].version} ELSE {1}

GetItemContent(s) ==
    \E u \in Users, i \in ItemIds :
        /\ Begin(s, Call(u, "get", i))

ApplyItemChanges(s) ==
    \E u \in Users, i \in ItemIds : \E b \in BaseVersions(i), c \in Batches :
        /\ Begin(s, [Call(u, "apply", i) EXCEPT !.base = b, !.changes = c])

DeleteItem(s) ==
    \E u \in Users, i \in ItemIds :
        /\ Begin(s, Call(u, "delete", i))

GetHistory(s) ==
    \E u \in Users, i \in ItemIds :
        /\ Begin(s, Call(u, "history", i))

RevertToAction(s) ==
    \E u \in Users, l \in 1..(Len(history) + 1) :
        /\ Begin(s, [Idle EXCEPT !.op = "revert", !.user = u,
                                 !.logId = l, !.pc = "rv_getlog"])

\* The caller takes the call's result.
Finish(s) ==
    /\ th[s].pc = "done"
    /\ Set(s, Idle)
    /\ UNCHANGED <<hubVars, counterMutex, interval, historyItems, meta, storage, cacheMeta, cacheContent, history,
                   changeCounters, calls, versionContent, casLog>>

\* ------------------------------------------------------ websocket: client
\* A message without Seq (omitempty: 0 is no seq).
Msg(a, i, v) == [action |-> a, item |-> i, ver |-> v, seq |-> 0]

\* Mutant: the reply is built without the request's seq.
Response_NoSeq(a, i, v, q) == Msg(a, i, v)

\* A reply to the request with seq q: Seq: seq.
Response(a, i, v, q) == [Msg(a, i, v) EXCEPT !.seq = q]

QueueFull(q) == Len(q) >= QueueCap

\* select { case c.send <- m: default: }: the message is queued if the
\* channel has room and dropped otherwise.
TrySend(q, m) == IF QueueFull(q) THEN q ELSE Append(q, m)

\* Client.sendJSON: a non-blocking send on c.send made by the handler's
\* goroutine; a send on a channel the hub has closed panics.
sendJSON(s, m) ==
    IF conn[s] = "closed"
    THEN /\ panicked' = TRUE
         /\ send' = send
    ELSE /\ panicked' = panicked
         /\ send' = [send EXCEPT ![s] = TrySend(@, m)]

\* Positions of a handler outside the service.
HandlerPcs == {"idle", "done", "submit", "subscribe", "unsubscribe", "ack"}

\* The hub and the handlers take their steps between service calls: one
\* service call runs at a time here (Spec interleaves the calls).
HubTurn == ~panicked /\ \A t \in Sessions : th[t].pc \in HandlerPcs

\* Mutant: processMessage does not test client.isAuthenticated.
Serving_Unauthenticated(s) ==
    /\ HubTurn /\ conn[s] = "open" /\ th[s].pc = "idle"
    /\ pump[s].read = "running"

\* processMessage lets an authenticated client's request through.
Serving(s) ==
    /\ HubTurn /\ conn[s] = "open" /\ userID[s] # NoUser /\ th[s].pc = "idle"
    /\ pump[s].read = "running"

\* writePump: takes the next message off c.send and writes it to the peer.
writePump(s) ==
    /\ HubTurn
    /\ pump[s].write = "running" /\ pump[s].sock = "open"
    /\ send[s] # <<>>
    /\ send' = [send EXCEPT ![s] = Tail(@)]
    /\ UNCHANGED <<svcVars, th, clients, subscribers, conn, unregistering,
                   userID, panicked, subReqs, received, pump>>

\* ---------------------------------------------------- websocket: handlers
handleApplyChanges(s) ==
    /\ Serving(s)
    /\ s \in Callers
    /\ \E i \in ItemIds : \E b \in BaseVersions(i), c \in HubBatches :
          Begin(s, [Call(userID[s], "apply", i) EXCEPT !.base = b, !.changes = c])

handleDeleteItem(s) ==
    /\ Serving(s)
    /\ s \in Callers
    /\ \E i \in ItemIds : Begin(s, Call(userID[s], "delete", i))

handleRevertAction(s) ==
    /\ Serving(s)
    /\ s \in Callers
    /\ \E l \in 1..(Len(history) + 1) :
          Begin(s, [Idle EXCEPT !.op = "revert", !.user = userID[s],
                                !.logId = l, !.pc = "rv_getlog"])

\* The handler blocks on hub.subscribe <- request (no ownership check: the
\* call of GetItemContent is commented out).
handleSubscribe(s) ==
    /\ Serving(s)
    /\ subReqs < MaxSubs
    /\ subReqs' = subReqs + 1
    /\ \E i \in ItemIds :
          Set(s, [Idle EXCEPT !.pc = "subscribe", !.op = "subscribe",
                              !.user = userID[s], !.item = i])
    /\ UNCHANGED <<svcVars, clients, subscribers, send, conn, unregistering,
                   userID, panicked, received, pump>>

handleUnsubscribe(s) ==
    /\ Serving(s)
    /\ subReqs < MaxSubs
    /\ subReqs' = subReqs + 1
    /\ \E i \in ItemIds :
          Set(s, [Idle EXCEPT !.pc = "unsubscribe", !.op = "unsubscribe",
                              !.user = userID[s], !.item = i])
    /\ UNCHANGED <<svcVars, clients, subscribers, send, conn, unregistering,
                   userID, panicked, received, pump>>

\* subscribe_success / unsubscribe_success, sent once the hub took the request.
sendAck(s) ==
    /\ HubTurn
    /\ th[s].pc = "ack"
    /\ sendJSON(s, Response(IF th[s].op = "subscribe" THEN "subscribe_success"
                            ELSE "unsubscribe_success", th[s].item, 0, th[s].seq))
    /\ Set(s, Idle)
    /\ UNCHANGED <<svcVars, clients, subscribers, conn, unregistering,
                   userID, subReqs, received, pump>>

\* Mutant: the handler submits a broadcast after an error too.
sendServiceError_Broadcasts(s) ==
    /\ HubTurn
    /\ th[s].pc = "done"
    /\ th[s].err # "ok"
    /\ sendJSON(s, Response("error", th[s].item, 0, th[s].seq))
    /\ Set(s, [th[s] EXCEPT !.pc = "submit"])
    /\ UNCHANGED <<svcVars, clients, subscribers, conn, unregistering,
                   userID, subReqs, received, pump>>

\* The service returned an error: the handler replies with it and returns.
sendServiceError(s) ==
    /\ HubTurn
    /\ th[s].pc = "done"
    /\ th[s].err # "ok"
    /\ sendJSON(s, Response("error", th[s].item, 0, th[s].seq))
    /\ Set(s, Idle)
    /\ UNCHANGED <<svcVars, clients, subscribers, conn, unregistering,
                   userID, subReqs, received, pump>>

SuccessAction(op) ==
    CASE op = "create" -> "create_success"
      [] op = "get" -> "content_response"
      [] op = "apply" -> "changes_applied"
      [] op = "delete" -> "delete_success"
      [] op = "history" -> "history_data"
      [] op = "revert" -> "revert_success"

\* The service returned without error: the handler replies to its client;
\* handleApplyChanges and handleDeleteItem then block on
\* hub.broadcastToItem <- broadcast, the other handlers return.
sendSuccess(s) ==
    LET r == th[s] IN
    /\ HubTurn
    /\ r.pc = "done"
    /\ r.err = "ok"
    /\ sendJSON(s, Response(SuccessAction(r.op), r.item, r.ver, r.seq))
    /\ Set(s, IF r.op \in {"apply", "delete"} THEN [r EXCEPT !.pc = "submit"] ELSE Idle)
    /\ UNCHANGED <<svcVars, clients, subscribers, conn, unregistering,
                   userID, subReqs, received, pump>>

\* Mutant: the broadcast announces the version after the one committed.
BroadcastMsg_Ahead(r) ==
    IF r.op = "apply" THEN Msg("content_changed", r.item, r.ver + 1)
    ELSE Msg("item_deleted", r.item, 0)

BroadcastMsg(r) ==
    IF r.op = "apply" THEN Msg("content_changed", r.item, r.ver)
    ELSE Msg("item_deleted", r.item, 0)

\* ------------------------------------------------------- websocket: hub
\* Mutant: the hub closes the send channel without testing h.clients; the
\* close of a closed channel panics.
HubUnregister_NoTest(s) ==
    /\ HubTurn
    /\ s \in unregistering
    /\ unregistering' = unregistering \ {s}
    /\ clients' = clients \ {s}
    /\ conn' = [conn EXCEPT ![s] = "closed"]
    /\ subscribers' = [k \in ItemIds |-> subscribers[k] \ {s}]
    /\ panicked' = (panicked \/ conn[s] = "closed")
    /\ UNCHANGED <<svcVars, th, send, userID, subReqs, received, pump>>

\* case client := <-h.unregister: a registered client is deleted and its send
\* channel closed; it leaves every subscriber set.
HubUnregister(s) ==
    /\ HubTurn
    /\ s \in unregistering
    /\ unregistering' = unregistering \ {s}
    /\ IF s \in clients
       THEN /\ clients' = clients \ {s}
            /\ conn' = [conn EXCEPT ![s] = "closed"]
            /\ subscribers' = [k \in ItemIds |-> subscribers[k] \ {s}]
       ELSE UNCHANGED <<clients, conn, subscribers>>
    /\ UNCHANGED <<svcVars, th, send, userID, panicked, subReqs, received, pump>>

\* case request := <-h.subscribe.
HubSubscribe(s) ==
    /\ HubTurn
    /\ th[s].pc = "subscribe"
    /\ subscribers' = [subscribers EXCEPT ![th[s].item] =
                          IF s \in clients THEN @ \cup {s} ELSE @]
    /\ Set(s, [th[s] EXCEPT !.pc = "ack"])
    /\ UNCHANGED <<svcVars, clients, send, conn, unregistering, userID,
                   panicked, subReqs, received, pump>>

\* case request := <-h.unsubscribe.
HubUnsubscribe(s) ==
    /\ HubTurn
    /\ th[s].pc = "unsubscribe"
    /\ subscribers' = [subscribers EXCEPT ![th[s].item] = @ \ {s}]
    /\ Set(s, [th[s] EXCEPT !.pc = "ack"])
    /\ UNCHANGED <<svcVars, clients, send, conn, unregistering, userID,
                   panicked, subReqs, received, pump>>

\* The sessions a broadcast for item k from originator o is dispatched to.
Targets(k, o) == subscribers[k] \ {o}

\* Mutant: a full queue is skipped and its client left registered.
Evicted_None(targets) == {}

\* default: of the dispatch: go func(c) { h.unregister <- c }(client) for
\* every target whose send channel is full.
Evicted(targets) == {c \in targets : QueueFull(send[c])}

\* Mutant: the originator is a target too.
Dispatch_ToAll(q, m, targets) ==
    [c \in Sessions |-> IF c \in targets \/ c \in subscribers[m.item]
                        THEN TrySend(q[c], m) ELSE q[c]]

\* The dispatch loop: a non-blocking send to every target.
Dispatch(q, m, targets) ==
    [c \in Sessions |-> IF c \in targets THEN TrySend(q[c], m) ELSE q[c]]

\* case b := <-h.broadcastToItem: taken from the handler blocked on it.
HubBroadcastToItem(o) ==
    LET r == th[o]
        m == BroadcastMsg(r)
        t == Targets(r.item, o)
    IN
    /\ HubTurn
    /\ r.pc = "submit"
    /\ send' = Dispatch(send, m, t)
    /\ unregistering' = unregistering \cup Evicted(t)
    /\ received' = [c \in Sessions |->
                      IF m.action = "content_changed" /\ send'[c] # send[c]
                      THEN Append(received[c], m.ver) ELSE received[c]]
    /\ Set(o, Idle)
    /\ UNCHANGED <<svcVars, clients, subscribers, conn, userID, panicked, subReqs, pump>>

\* ------------------------------------------------------------------- Spec
Step(s) ==
    \/ MetaCacheGet(s) \/ MetaDbGet(s) \/ MetaCacheSet(s)
    \/ ContentCacheGet(s) \/ DownloadFile(s) \/ ContentCacheSet(s)
    \/ UploadFile(s) \/ UpdateMeta(s) \/ getItemVersion(s)
    \/ CacheDeleteItemMeta(s) \/ CacheInvalidateItemContent(s) \/ CacheSetNewContent(s)
    \/ LogPatch(s) \/ handleSnapshotting(s) \/ LogSnapshot(s)
    \/ GetHistoryLogByID(s) \/ DownloadRevertContent(s) \/ LogRevert(s)
    \/ ResetCounter(s)
    \/ DeletePostMeta(s) \/ DeleteFile(s) \/ LogDelete(s)
    \/ GetActionHistory(s)

Next ==
    \E s \in Callers :
        \/ CreatePost(s)
        \/ GetItemContent(s) \/ ApplyItemChanges(s) \/ DeleteItem(s)
        \/ GetHistory(s) \/ RevertToAction(s)
        \/ Step(s)
        \/ Finish(s)

Spec == Init /\ [][Next]_vars

\* The state the hub is looked at from: the connections are registered
\* (HandleConnections) and authenticated (handleAuth), the creator has
\* created the item (CreatePost), and any of the sessions have subscribed
\* to it and read their replies.
InitHub ==
    LET u == Creator
        path(i) == generateS3Path(u, i)
    IN
    /\ meta = [i \in ItemIds |-> Post(u, 1, path(i))]
    /\ storage = [k \in Keys |-> IF \E i \in ItemIds : k = path(i)
                                 THEN Object(InitialContent) ELSE NoObject]
    /\ cacheMeta = [i \in ItemIds |-> Post(u, 1, path(i))]
    /\ cacheContent = [iv \in ItemIds \X Versions |->
                          IF iv[2] = 1 THEN Object(InitialContent) ELSE NoObject]
    /\ history = <<[HistoryLog("create", u, "i1", 1) EXCEPT !.s3PathAfter = path("i1")]>>
    /\ changeCounters = [i \in ItemIds |-> 0]
    /\ interval = SnapshotInterval
    /\ counterMutex = "free"
    /\ historyItems = NoHistoryItems
    /\ th = [s \in Sessions |-> Idle]
    /\ calls = 0
    /\ versionContent = [i \in ItemIds |-> <<InitialContent>>]
    /\ casLog = [i \in ItemIds |-> <<>>]
    /\ clients = Sessions
    /\ subscribers \in [ItemIds -> SUBSET Sessions]
    /\ send = [s \in Sessions |-> <<>>]
    /\ conn = [s \in Sessions |-> "open"]
    /\ unregistering = {}
    /\ userID = TokenUser
    /\ panicked = FALSE
    /\ subReqs = 0
    /\ received = [s \in Sessions |-> <<>>]
    /\ pump = [s \in Sessions |-> Pumping]

\* The steps of the service calls made here, which run one at a time: the
\* calls find the content of the current version in the cache.
StepHub(s) ==
    \/ MetaCacheGet(s) \/ MetaDbGet(s) \/ MetaCacheSet(s)
    \/ ContentCacheGet(s)
    \/ UploadFile(s) \/ UpdateMeta(s)
    \/ CacheDeleteItemMeta(s) \/ CacheInvalidateItemContent(s) \/ CacheSetNewContent(s)
    \/ LogPatch(s) \/ handleSnapshotting(s) \/ LogSnapshot(s)
    \/ GetHistoryLogByID(s) \/ DownloadRevertContent(s) \/ LogRevert(s)
    \/ ResetCounter(s)
    \/ DeletePostMeta(s) \/ DeleteFile(s) \/ LogDelete(s)

\* The edits and the hub: the requests that reach the hub (apply_changes,
\* delete_item, subscribe, unsubscribe) and revert_action, which changes the
\* version without reaching it.
NextHub ==
    \E s \in Sessions :
        \/ writePump(s)
        \/ handleApplyChanges(s) \/ handleDeleteItem(s) \/ handleRevertAction(s)
        \/ handleSubscribe(s) \/ handleUnsubscribe(s) \/ sendAck(s)
        \/ sendServiceError(s) \/ sendSuccess(s)
        \/ HubSubscribe(s) \/ HubUnsubscribe(s) \/ HubBroadcastToItem(s)
        \/ HubUnregister(s)
        \/ StepHub(s)

SpecHub == InitHub /\ [][NextHub]_vars

\* The hub loop and the goroutines of the handlers keep running; nothing
\* makes a client read its queue (writePump) or send a request.
SpecHubFair ==
    /\ SpecHub
    /\ \A s \in Sessions :
          /\ WF_vars(HubBroadcastToItem(s))
          /\ WF_vars(HubSubscribe(s))
          /\ WF_vars(HubUnsubscribe(s))
          /\ WF_vars(HubUnregister(s))
          /\ WF_vars(StepHub(s))
          /\ WF_vars(sendAck(s))
          /\ WF_vars(sendSuccess(s))
          /\ WF_vars(sendServiceError(s))

\* ---------------------------------------------------------------- claims
\* No service call is in flight.
Quiescent == \A c \in Callers : th[c].pc \in {"idle", "done"}

\* What GetItemContent returns for item i when it runs with no other call
\* in between its steps.
ServedContent(i) ==
    LET m == IF cacheMeta[i].exists THEN cacheMeta[i] ELSE meta[i]
        e == cacheContent[<<i, m.version>>]
    IN  IF e.present THEN e.data
        ELSE IF m.s3Path = NoPath THEN <<>>
        ELSE IF storage[m.s3Path].present THEN storage[m.s3Path].data
        ELSE <<>>

\* The stores a coordinator operation must not write when it is refused.
DurableStores == {"meta", "blob", "history"}

Returned(c, op, err) == th[c].pc = "done" /\ th[c].op = op /\ th[c].err = err

\* C1: after a successful revertToAction to a create or snapshot log L of
\* item I, getContent for I serves the content I had at version
\* L.itemVersion (checked when no other call is in flight).
C1_RevertServesTargetContent ==
    \A c \in Callers :
        (Returned(c, "revert", "ok") /\ Quiescent /\ meta[th[c].item].exists)
            => ServedContent(th[c].item)
                 = versionContent[th[c].item][th[c].targetLog.itemVersion]

\* C2: the bytes at the item's blobKey are the content committed by the
\* operation whose metadata CAS set the item's current version (checked when
\* no call is in flight, so that no upload is waiting for its CAS).
C2_BlobHoldsCurrentVersion ==
    \A i \in ItemIds :
        (meta[i].exists /\ meta[i].s3Path # NoPath /\ Quiescent)
            => storage[meta[i].s3Path] = Object(versionContent[i][meta[i].version])

\* C3: an applyChanges that returns VersionConflict has had no side effect
\* on the blob store, the metadata store or the history.
C3_VersionConflictNoSideEffect ==
    \A c \in Callers :
        Returned(c, "apply", "VersionConflict")
            => th[c].touched \cap DurableStores = {}

\* The last entry of item i's commit log made by caller c (0 if none).
LastCommitBy(i, c) ==
    LET ks == {k \in 1..Len(casLog[i]) : casLog[i][k].by = c}
    IN  IF ks = {} THEN 0 ELSE CHOOSE k \in ks : \A j \in ks : j <= k

\* C4: per item the successful metadata updates start from pairwise distinct
\* base versions and produce the versions v0+1, v0+2, ... in commit order
\* (v0 = 1, the version at creation), and a successful call returns the
\* version its own update produced.
C4_CommitsContiguous ==
    \A i \in ItemIds :
        /\ \A k \in 1..Len(casLog[i]) :
              casLog[i][k].base = k /\ casLog[i][k].new = k + 1
        /\ \A c \in Callers :
              (th[c].pc = "done" /\ th[c].op \in {"apply", "revert"}
                 /\ th[c].err = "ok" /\ th[c].item = i)
                  => /\ LastCommitBy(i, c) # 0
                     /\ casLog[i][LastCommitBy(i, c)].new = th[c].ver

\* Two applyChanges calls raced from the same base version: one committed,
\* the other lost at the metadata CAS after its blob write.
C4_Witness ==
    \E c, d \in Callers :
        /\ c # d
        /\ Returned(c, "apply", "ok")
        /\ Returned(d, "apply", "VersionConflict")
        /\ th[c].base = th[d].base
        /\ "blob" \in th[d].touched

\* A finished call made on an existing item by a user who does not own it;
\* the call found the item (its metadata, or for revertToAction its log).
NonOwnerCall(c) ==
    /\ th[c].pc = "done"
    /\ (th[c].meta.exists \/ th[c].targetLog # NoLog)
    /\ th[c].item \in ItemIds
    /\ meta[th[c].item].exists
    /\ meta[th[c].item].userId # th[c].user

\* C5 as stated: every coordinator operation of a non-owner on an existing
\* item returns PermissionDenied and writes nothing to the metadata store,
\* the blob store or the history.
C5_NonOwnerPermissionDenied ==
    \A c \in Callers :
        NonOwnerCall(c)
            => /\ th[c].err = "PermissionDenied"
               /\ th[c].touched \cap DurableStores = {}

\* C5 amended: as above, except that revertToAction on a log of the item
\* that is no create or snapshot entry returns RevertNotAllowed (the action
\* of the target log is checked before the ownership).
C5_NonOwnerRefused ==
    \A c \in Callers :
        NonOwnerCall(c)
            => /\ th[c].err = IF th[c].op = "revert"
                                 /\ th[c].targetLog.action \notin {"create", "snapshot"}
                              THEN "RevertNotAllowed"
                              ELSE "PermissionDenied"
               /\ th[c].touched \cap DurableStores = {}

\* A non-owner's revertToAction on the create log of an existing item was
\* refused with PermissionDenied.
C5_Witness ==
    \E c \in Callers :
        /\ NonOwnerCall(c)
        /\ Returned(c, "revert", "PermissionDenied")
        /\ th[c].targetLog.action = "create"

\* The owner recorded when item i was created.
ItemOwner(i) ==
    LET n == CHOOSE n \in 1..Len(history) :
                 history[n].action = "create" /\ history[n].itemId = i
    IN  history[n].userId

BroadcastActions == {"content_changed", "item_deleted"}

\* C6: no content_changed or item_deleted message is in the queue of a
\* session whose user does not own the message's item.
C6_BroadcastsReachOwnerOnly ==
    \A s \in Sessions : \A k \in 1..Len(send[s]) :
        send[s][k].action \in BroadcastActions
            => ItemOwner(send[s][k].item) = userID[s]

\* The hub takes the broadcast that handler o is blocked on.
Dispatches(o) == th[o].pc = "submit" /\ th'[o].pc # "submit"

\* C7 as stated: the hub's dispatch of a broadcast for item K from originator
\* O appends the message once to the queue of every subscriber of K other
\* than O and leaves every other queue as it was.
C7_BroadcastToEverySubscriber ==
    [][\A o \in Sessions :
          Dispatches(o) =>
              \A s \in Sessions :
                  send'[s] = IF s \in subscribers[th[o].item] \ {o}
                             THEN Append(send[s], BroadcastMsg(th[o]))
                             ELSE send[s]]_vars

\* C7 amended: the dispatch appends the message once to the queue of every
\* subscriber of K other than O whose queue has room; a subscriber whose
\* queue is full, the originator and the sessions not subscribed to K get
\* nothing.
C7_BroadcastToSubscribersWithRoom ==
    [][\A o \in Sessions :
          Dispatches(o) =>
              \A s \in Sessions :
                  send'[s] = IF /\ s \in subscribers[th[o].item] \ {o}
                                /\ Len(send[s]) < QueueCap
                             THEN Append(send[s], BroadcastMsg(th[o]))
                             ELSE send[s]]_vars

\* c1, c2 and c3 are subscribed, c1 applied a change: c2 and c3 each hold one
\* content_changed for the new version, c1 holds its changes_applied only.
C7_Witness ==
    \E v \in Versions :
        /\ subscribers["i1"] = Sessions
        /\ th["c1"].pc = "idle"
        /\ send["c1"] = <<Msg("changes_applied", "i1", v)>>
        /\ send["c2"] = <<Msg("content_changed", "i1", v)>>
        /\ send["c3"] = <<Msg("content_changed", "i1", v)>>

\* A session the hub has neither closed nor been asked to unregister.
StaysConnected(s) == conn[s] = "open" /\ s \notin unregistering

\* C8: the versions of the content_changed messages enqueued to a subscriber
\* that stays connected go up by one from each message to the next.
C8_BroadcastVersionsContiguous ==
    \A s \in Sessions :
        StaysConnected(s) =>
            \A k \in 1..(Len(received[s]) - 1) :
                received[s][k + 1] = received[s][k] + 1

\* C9: a broadcast waiting at the hub is always taken, whatever the queues
\* hold; the dispatch leaves a full queue as it is (the message is dropped
\* for that session), schedules that session's unregister and still
\* delivers to the targets with room; the unregister of a registered session
\* removes it from the hub and closes its queue.
C9_FullQueueDropAndUnregister ==
    /\ [](\A o \in Sessions :
            (HubTurn /\ th[o].pc = "submit") => ENABLED HubBroadcastToItem(o))
    /\ [][\A o \in Sessions :
            Dispatches(o) =>
                \A s \in Targets(th[o].item, o) :
                    IF QueueFull(send[s])
                    THEN send'[s] = send[s] /\ s \in unregistering'
                    ELSE send'[s] = Append(send[s], BroadcastMsg(th[o]))]_vars
    /\ [][\A s \in Sessions :
            (s \in unregistering /\ s \notin unregistering' /\ s \in clients)
                => /\ s \notin clients'
                   /\ conn'[s] = "closed"]_vars

\* A session whose queue was full has been unregistered: its queue is closed
\* and still holds the messages that filled it, another subscriber got the
\* broadcast.
C9_Witness ==
    \E s, t \in Sessions :
        /\ s # t
        /\ conn[s] = "closed"
        /\ s \notin clients
        /\ QueueFull(send[s])
        /\ send[s][1].action \notin BroadcastActions
        /\ received[s] = <<>>
        /\ received[t] # <<>>

\* C10: every request a handler submits to the hub is eventually taken, a
\* session whose unregister was scheduled is eventually removed from the
\* hub, and the subscribers that stay connected receive the content_changed
\* versions in order, one by one.
C10_SlowSubscriberNeverStalls ==
    /\ \A o \in Sessions :
          /\ (th[o].pc = "submit") ~> (th[o].pc # "submit")
          /\ (th[o].pc = "subscribe") ~> (th[o].pc # "subscribe")
          /\ (th[o].pc = "unsubscribe") ~> (th[o].pc # "unsubscribe")
    /\ \A s \in Sessions : (s \in unregistering) ~> (s \notin clients)
    /\ [](\A s \in Sessions :
            StaysConnected(s) =>
                \A j, k \in 1..Len(received[s]) :
                    j < k => received[s][k] = received[s][j] + (k - j))

\* ------------------------------------------- reads that race with an edit
\* Calls made from the state below.
MaxCacheCalls == 3

\* Calls made from the state below when reverts race with edits.
MaxRaceCalls == 4

\* The versions an item can reach from version 2 in that many commits.
CacheVersions == 1..(MaxCacheCalls + MaxRaceCalls)

\* The state after CreatePost and one ApplyItemChanges(<<InsB>>) of the
\* creator have returned: version 2, the cached metadata deleted by the
\* edit (step 7), the content of version 2 cached.
InitCache ==
    LET u == Creator
        path(i) == generateS3Path(u, i)
        second == applyChanges(InitialContent, <<InsB>>)
    IN
    /\ meta = [i \in ItemIds |-> Post(u, 2, path(i))]
    /\ storage = [k \in Keys |-> IF \E i \in ItemIds : k = path(i)
                                 THEN Object(second) ELSE NoObject]
    /\ cacheMeta = [i \in ItemIds |-> NoMeta]
    /\ cacheContent = [iv \in ItemIds \X CacheVersions |->
                          IF iv[2] = 2 THEN Object(second) ELSE NoObject]
    /\ history = <<[HistoryLog("create", u, "i1", 1) EXCEPT !.s3PathAfter = path("i1")],
                   [HistoryLog("patch", u, "i1", 2) EXCEPT !.changeData = InsB]>>
    /\ changeCounters = [i \in ItemIds |-> IF 1 >= SnapshotInterval THEN 0 ELSE 1]
    /\ interval = SnapshotInterval
    /\ counterMutex = "free"
    /\ historyItems = NoHistoryItems
    /\ th = [s \in Sessions |-> Idle]
    /\ calls = 0
    /\ versionContent = [i \in ItemIds |-> <<InitialContent, second>>]
    /\ casLog = [i \in ItemIds |-> <<[by |-> "c1", op |-> "apply", base |-> 1, new |-> 2,
                                         changes |-> 1]>>]
    /\ clients = {}
    /\ subscribers = [i \in ItemIds |-> {}]
    /\ send = [s \in Sessions |-> <<>>]
    /\ conn = [s \in Sessions |-> "new"]
    /\ unregistering = {}
    /\ userID = [s \in Sessions |-> NoUser]
    /\ panicked = FALSE
    /\ subReqs = 0
    /\ received = [s \in Sessions |-> <<>>]
    /\ pump = [s \in Sessions |-> Pumping]

BeginWithin(s, r, n) ==
    /\ th[s].pc = "idle"
    /\ calls < n
    /\ calls' = calls + 1
    /\ Set(s, r)
    /\ UNCHANGED <<hubVars, counterMutex, interval, historyItems, meta, storage, cacheMeta, cacheContent, history,
                   changeCounters, versionContent, casLog>>

\* The callers whose ApplyItemChanges has updated the metadata of item i and
\* has not returned yet.
Committing(i) ==
    {c \in Callers : /\ th[c].pc \notin {"idle", "done"}
                     /\ th[c].op = "apply" /\ th[c].item = i
                     /\ "meta" \in th[c].touched}

\* The highest version of item i that an ApplyItemChanges has returned to its
\* caller (0 if none has).
AckedVersion(i) ==
    LET ks == {k \in 1..Len(casLog[i]) :
                 /\ casLog[i][k].op = "apply"
                 /\ \A c \in Committing(i) : k # LastCommitBy(i, c)}
    IN  IF ks = {} THEN 0
        ELSE casLog[i][CHOOSE k \in ks : \A j \in ks : j <= k].new

\* GetItemContent by the owner; the call notes (in base, which GetItemContent
\* does not use) the version the edits had returned when it was issued.
OwnerGetItemContent(s) ==
    \E i \in ItemIds :
        /\ BeginWithin(s, [Call(Creator, "get", i) EXCEPT !.base = AckedVersion(i)],
                       MaxCacheCalls)

OwnerApplyItemChanges(s) ==
    \E i \in ItemIds : \E b \in BaseVersions(i) :
        /\ BeginWithin(s, [Call(Creator, "apply", i) EXCEPT !.base = b,
                                                          !.changes = <<InsB>>],
                       MaxCacheCalls)

StepCache(s) ==
    \/ MetaCacheGet(s) \/ MetaDbGet(s) \/ MetaCacheSet(s)
    \/ ContentCacheGet(s) \/ DownloadFile(s) \/ ContentCacheSet(s)
    \/ UploadFile(s) \/ UpdateMeta(s) \/ getItemVersion(s)
    \/ CacheDeleteItemMeta(s) \/ CacheInvalidateItemContent(s) \/ CacheSetNewContent(s)
    \/ LogPatch(s) \/ handleSnapshotting(s) \/ LogSnapshot(s)

NextCache ==
    \E s \in Callers :
        \/ OwnerGetItemContent(s) \/ OwnerApplyItemChanges(s)
        \/ StepCache(s)
        \/ Finish(s)

SpecCache == InitCache /\ [][NextCache]_vars

\* C11: a GetItemContent issued after an ApplyItemChanges returned version v
\* returns a version >= v, and the content of version v when no later update
\* was committed, also when other GetItemContent calls ran concurrently with
\* that ApplyItemChanges.
C11_ReadAfterWrite ==
    \A c \in Callers :
        Returned(c, "get", "ok") /\ th[c].base > 0
            => /\ th[c].ver >= th[c].base
               /\ Len(versionContent[th[c].item]) = th[c].base
                    => th[c].out = versionContent[th[c].item][th[c].base]

\* ------------------------------------------------------ the stored version
VersionWriters == {"apply", "revert"}

\* C12: the stored version of an item is >= 1 and never decreases; a step
\* changes it only as the metadata update of an ApplyItemChanges or a
\* RevertToAction that succeeds, by exactly one; and each such call that
\* returns success made one update, from the version it loaded to the next.
C12_VersionMonotonic ==
    [][\A i \in ItemIds :
          /\ meta'[i].exists => meta'[i].version >= 1
          /\ ~meta[i].exists /\ meta'[i].exists => meta'[i].version = 1
          /\ meta[i].exists /\ meta'[i].exists
                => /\ meta'[i].version >= meta[i].version
                   /\ meta'[i].version # meta[i].version
                        => \E s \in Callers :
                              /\ th[s].pc = "cas" /\ th'[s].pc = "cache_del_meta"
                              /\ th[s].op \in VersionWriters /\ th[s].item = i
                              /\ meta'[i].version = meta[i].version + 1
          /\ \A s \in Callers :
                /\ th[s].pc # "done" /\ th'[s].pc = "done" /\ th'[s].err = "ok"
                /\ th'[s].op \in VersionWriters /\ th'[s].item = i
                => /\ "meta" \in th'[s].touched
                   /\ LastCommitBy(i, s) > 0
                   /\ LET e == casLog[i][LastCommitBy(i, s)] IN
                        e.base = th'[s].curVer /\ e.new = e.base + 1
      ]_vars

\* An edit and then a revert have been committed and have returned.
C12_Witness ==
    \E i \in ItemIds :
        /\ Len(casLog[i]) = 2
        /\ casLog[i][1].op = "apply" /\ casLog[i][2].op = "revert"
        /\ meta[i].exists /\ meta[i].version = 3
        /\ Returned(casLog[i][2].by, "revert", "ok")

\* ------------------------------------------------- failures of the stores
\* Calls made from the state below.
MaxFaultCalls == 2

\* The state after CreatePost of the creator has returned.
InitFault ==
    LET u == Creator
        path(i) == generateS3Path(u, i)
    IN
    /\ meta = [i \in ItemIds |-> Post(u, 1, path(i))]
    /\ storage = [k \in Keys |-> IF \E i \in ItemIds : k = path(i)
                                 THEN Object(InitialContent) ELSE NoObject]
    /\ cacheMeta = [i \in ItemIds |-> Post(u, 1, path(i))]
    /\ cacheContent = [iv \in ItemIds \X Versions |->
                          IF iv[2] = 1 THEN Object(InitialContent) ELSE NoObject]
    /\ history = <<[HistoryLog("create", u, "i1", 1) EXCEPT !.s3PathAfter = path("i1")]>>
    /\ changeCounters = [i \in ItemIds |-> 0]
    /\ interval = SnapshotInterval
    /\ counterMutex = "free"
    /\ historyItems = NoHistoryItems
    /\ th = [s \in Sessions |-> Idle]
    /\ calls = 0
    /\ versionContent = [i \in ItemIds |-> <<InitialContent>>]
    /\ casLog = [i \in ItemIds |-> <<>>]
    /\ clients = {}
    /\ subscribers = [i \in ItemIds |-> {}]
    /\ send = [s \in Sessions |-> <<>>]
    /\ conn = [s \in Sessions |-> "new"]
    /\ unregistering = {}
    /\ userID = [s \in Sessions |-> NoUser]
    /\ panicked = FALSE
    /\ subReqs = 0
    /\ received = [s \in Sessions |-> <<>>]
    /\ pump = [s \in Sessions |-> Pumping]

FaultGetItemContent(s) ==
    \E i \in ItemIds :
        /\ BeginWithin(s, Call(Creator, "get", i), MaxFaultCalls)

FaultApplyItemChanges(s) ==
    \E i \in ItemIds : \E b \in BaseVersions(i) :
        /\ BeginWithin(s, [Call(Creator, "apply", i) EXCEPT !.base = b,
                                                          !.changes = <<InsB>>],
                       MaxFaultCalls)

\* Mutant: the upload error is ignored and the call goes on to step 6.
UploadFailed_Proceeds(r) == [r EXCEPT !.pc = "cas"]

\* uploadErr != nil: "Don't proceed to DB update if S3 fails".
UploadFailed(r) == Return(r, "StorageFailed", 0, <<>>)

\* Step 5 of ApplyItemChanges when storage.UploadFile returns an error.
UploadFileFails(s) ==
    LET r == th[s] IN
    /\ r.pc = "upload"
    /\ r.op = "apply"
    /\ Set(s, UploadFailed(r))
    /\ UNCHANGED <<hubVars, counterMutex, interval, historyItems, meta, storage, cacheMeta, cacheContent, history,
                   changeCounters, calls, versionContent, casLog>>

\* The positions of a call that is running.
Running(s) == th[s].pc \notin {"idle", "done", "crashed"}

\* The process stops: the goroutines of the running calls are gone wherever
\* they were, and with them Service.changeCounters, which is kept in memory;
\* the database, the blob store and Redis keep their contents.
Crash ==
    /\ \E s \in Callers : Running(s)
    /\ th' = [s \in Sessions |-> IF Running(s) THEN [th[s] EXCEPT !.pc = "crashed"]
                                 ELSE th[s]]
    /\ changeCounters' = [i \in ItemIds |-> 0]
    /\ UNCHANGED <<hubVars, counterMutex, interval, historyItems, meta, storage, cacheMeta, cacheContent, history,
                   calls, versionContent, casLog>>

\* Redis drops an entry whose expiration (itemMetaCacheDuration,
\* itemContentCacheDuration) has passed.
CacheExpire ==
    \/ /\ \E i \in ItemIds :
            /\ cacheMeta[i].exists
            /\ cacheMeta' = [cacheMeta EXCEPT ![i] = NoMeta]
       /\ UNCHANGED <<hubVars, counterMutex, interval, historyItems, meta, storage, cacheContent, history, changeCounters,
                      th, calls, versionContent, casLog>>
    \/ /\ \E iv \in DOMAIN cacheContent :
            /\ cacheContent[iv].present
            /\ cacheContent' = [cacheContent EXCEPT ![iv] = NoObject]
       /\ UNCHANGED <<hubVars, counterMutex, interval, historyItems, meta, storage, cacheMeta, history, changeCounters,
                      th, calls, versionContent, casLog>>

StepFault(s) ==
    \/ MetaCacheGet(s) \/ MetaDbGet(s) \/ MetaCacheSet(s)
    \/ ContentCacheGet(s) \/ DownloadFile(s) \/ ContentCacheSet(s)
    \/ UploadFile(s) \/ UploadFileFails(s) \/ UpdateMeta(s) \/ getItemVersion(s)
    \/ CacheDeleteItemMeta(s) \/ CacheInvalidateItemContent(s) \/ CacheSetNewContent(s)
    \/ LogPatch(s) \/ handleSnapshotting(s) \/ LogSnapshot(s)

NextFault ==
    \/ \E s \in Callers :
          \/ FaultGetItemContent(s) \/ FaultApplyItemChanges(s)
          \/ StepFault(s)
          \/ Finish(s)
    \/ Crash
    \/ CacheExpire

SpecFault == InitFault /\ [][NextFault]_vars

\* C13: in ApplyItemChanges the metadata update is reached only by the step
\* in which the blob upload succeeded, and a call whose upload fails returns
\* StorageFailed in a step that leaves metadata, blob, history, cache and
\* snapshot counter as they were, the call having written none of metadata,
\* blob and history.
C13_BlobBeforeCas ==
    [][\A s \in Callers :
          /\ th'[s].op = "apply" /\ th'[s].pc = "cas" /\ th[s].pc # "cas"
                => /\ th[s].pc = "upload"
                   /\ storage'[th[s].s3Path] = Object(th[s].newContent)
                   /\ "blob" \in th'[s].touched
          /\ th[s].op = "apply" /\ th[s].pc = "upload" /\ th'[s].pc = "done"
                => /\ th'[s].err = "StorageFailed"
                   /\ th'[s].touched \cap DurableStores = {}
                   /\ UNCHANGED <<meta, storage, history, cacheMeta, cacheContent,
                                  changeCounters>>
          /\ th[s].op = "apply" /\ meta'[th[s].item] # meta[th[s].item]
                /\ th[s].pc = "cas" /\ th'[s].pc # "cas"
                => "blob" \in th[s].touched
      ]_vars

\* An ApplyItemChanges has returned the storage failure.
C13_Witness ==
    \E c \in Callers : Returned(c, "apply", "StorageFailed")

\* The calls stopped between step 5 (blob upload) and step 6 (metadata
\* update) of ApplyItemChanges.
CrashedAfterUpload ==
    {c \in Callers : /\ th[c].pc = "crashed" /\ th[c].op = "apply"
                     /\ "blob" \in th[c].touched /\ "meta" \notin th[c].touched}

\* C14: after an ApplyItemChanges stopped between its blob upload and its
\* metadata update, and with no update committed since, the item's metadata
\* is the record the call loaded and the content served for the item is the
\* content of its current version.
C14_CrashLeavesVersionContent ==
    \A c \in CrashedAfterUpload :
        LET i == th[c].item IN
        meta[i].exists /\ meta[i].version = th[c].curVer
            => /\ meta[i] = th[c].meta
               /\ ServedContent(i) = versionContent[i][meta[i].version]

\* --------------------------------------------- batches that fail to apply
\* The hub state with every session subscribed to the item.
InitBatch ==
    /\ InitHub
    /\ subscribers = [i \in ItemIds |-> Sessions]

\* handleApplyChanges with any of the batches, the failing one included.
handleApplyBatch(s) ==
    /\ Serving(s)
    /\ s \in Callers
    /\ \E i \in ItemIds : \E b \in BaseVersions(i), c \in Batches :
          Begin(s, [Call(userID[s], "apply", i) EXCEPT !.base = b, !.changes = c])

StepBatch(s) ==
    \/ MetaCacheGet(s) \/ MetaDbGet(s) \/ MetaCacheSet(s)
    \/ ContentCacheGet(s)
    \/ UploadFile(s) \/ UpdateMeta(s)
    \/ CacheDeleteItemMeta(s) \/ CacheInvalidateItemContent(s) \/ CacheSetNewContent(s)
    \/ LogPatch(s) \/ handleSnapshotting(s) \/ LogSnapshot(s)

NextBatch ==
    \E s \in Sessions :
        \/ writePump(s)
        \/ handleApplyBatch(s)
        \/ sendServiceError(s) \/ sendSuccess(s)
        \/ HubBroadcastToItem(s) \/ HubUnregister(s)
        \/ StepBatch(s)

SpecBatch == InitBatch /\ [][NextBatch]_vars

\* An ApplyItemChanges of s has returned ApplyFailed.
ApplyFailed(s) == Returned(s, "apply", "ApplyFailed")

\* C15: the step in which ApplyItemChanges fails on a change of the batch
\* returns ApplyFailed and leaves blob, metadata, history, cache and
\* snapshot counter as they were, the call having written none of blob,
\* metadata and history and kept no partly applied content; the handler then
\* replies to its own client only and submits no broadcast.
C15_ApplyFailedPersistsNothing ==
    [][\A s \in Callers :
          /\ ~ApplyFailed(s) /\ ApplyFailed(s)'
                => /\ th'[s].touched \cap DurableStores = {}
                   /\ th'[s].newContent = <<>>
                   /\ UNCHANGED <<meta, storage, history, cacheMeta, cacheContent,
                                  changeCounters, send, received>>
          /\ ApplyFailed(s) /\ ~ApplyFailed(s)'
                => /\ th'[s].pc = "idle"
                   /\ \A c \in Sessions \ {s} : send'[c] = send[c]
                   /\ UNCHANGED <<meta, storage, history, cacheMeta, cacheContent,
                                  changeCounters, received, unregistering>>
      ]_vars

\* A batch whose second change has a bad anchor has failed, after its
\* first change applied, with other sessions subscribed to the item.
C15_Witness ==
    \E c \in Callers :
        /\ ApplyFailed(c)
        /\ Len(th[c].changes) = 2
        /\ applyChanges(versionContent[th[c].item][th[c].curVer],
                        <<th[c].changes[1]>>) # ApplyFailure
        /\ subscribers[th[c].item] \ {c} # {}

\* ----------------------------------------- outcomes of a failed update
\* The metadata update of the ApplyItemChanges of s fails in this step.
CasFails(s) ==
    /\ th[s].op = "apply" /\ th[s].pc = "cas" /\ th'[s].pc # "cas"
    /\ UpdatePostMetaErr(meta[th[s].item], th[s].curVer) # "ok"

\* C16: when the metadata update of ApplyItemChanges fails, the call returns
\* NotFound if the item no longer exists, and if the version changed it
\* returns VersionConflict with the stored version.
C16_CasFailureCause ==
    [][\A s \in Callers :
          /\ CasFails(s) /\ ~meta[th[s].item].exists
                => th'[s].pc = "done" /\ th'[s].err = "NotFound"
          /\ CasFails(s) /\ meta[th[s].item].exists
                => th'[s].pc = "get_version"
          /\ th[s].pc = "get_version" /\ th'[s].pc # "get_version"
                /\ meta[th[s].item].exists
                => /\ th'[s].pc = "done" /\ th'[s].err = "VersionConflict"
                   /\ th'[s].ver = meta[th[s].item].version
      ]_vars

\* ------------------------------------------------------------- snapshots
\* Edits made from the state below: one more than the interval.
MaxSnapCalls == SnapshotInterval + 1

SnapBatches == {<<InsB>>, <<InsB, InsB>>}

\* The state after CreatePost of the creator has returned, with snapshots
\* configured at the interval or disabled (SNAPSHOT_INTERVAL_CHANGES=0).
InitSnap ==
    LET u == Creator
        path(i) == generateS3Path(u, i)
    IN
    /\ meta = [i \in ItemIds |-> Post(u, 1, path(i))]
    /\ storage = [k \in Keys |-> IF \E i \in ItemIds : k = path(i)
                                 THEN Object(InitialContent) ELSE NoObject]
    /\ cacheMeta = [i \in ItemIds |-> Post(u, 1, path(i))]
    /\ cacheContent = [iv \in ItemIds \X (1..(MaxSnapCalls + 1)) |->
                          IF iv[2] = 1 THEN Object(InitialContent) ELSE NoObject]
    /\ history = <<[HistoryLog("create", u, "i1", 1) EXCEPT !.s3PathAfter = path("i1")]>>
    /\ changeCounters = [i \in ItemIds |-> 0]
    /\ interval \in {0, SnapshotInterval}
    /\ counterMutex = "free"
    /\ historyItems = NoHistoryItems
    /\ th = [s \in Sessions |-> Idle]
    /\ calls = 0
    /\ versionContent = [i \in ItemIds |-> <<InitialContent>>]
    /\ casLog = [i \in ItemIds |-> <<>>]
    /\ clients = {}
    /\ subscribers = [i \in ItemIds |-> {}]
    /\ send = [s \in Sessions |-> <<>>]
    /\ conn = [s \in Sessions |-> "new"]
    /\ unregistering = {}
    /\ userID = [s \in Sessions |-> NoUser]
    /\ panicked = FALSE
    /\ subReqs = 0
    /\ received = [s \in Sessions |-> <<>>]
    /\ pump = [s \in Sessions |-> Pumping]

SnapApplyItemChanges(s) ==
    \E i \in ItemIds : \E b \in BaseVersions(i), c \in SnapBatches :
        /\ BeginWithin(s, [Call(Creator, "apply", i) EXCEPT !.base = b, !.changes = c],
                       MaxSnapCalls)

StepSnap(s) ==
    \/ MetaCacheGet(s) \/ MetaDbGet(s) \/ MetaCacheSet(s)
    \/ ContentCacheGet(s)
    \/ UploadFile(s) \/ UpdateMeta(s) \/ getItemVersion(s)
    \/ CacheDeleteItemMeta(s) \/ CacheInvalidateItemContent(s) \/ CacheSetNewContent(s)
    \/ LogPatch(s) \/ handleSnapshotting(s) \/ LogSnapshot(s)

NextSnap ==
    \E s \in Callers :
        \/ SnapApplyItemChanges(s)
        \/ StepSnap(s)
        \/ Finish(s)

SpecSnap == InitSnap /\ [][NextSnap]_vars

\* The positions in the history of item i's entries with action a.
LogsOf(i, a) ==
    {k \in 1..Len(history) : history[k].itemId = i /\ history[k].action = a}

\* Every committed edit of item i had one change.
SingleChangeOnly(i) ==
    \A v \in 2..meta[i].version :
        Cardinality({k \in LogsOf(i, "patch") : history[k].itemVersion = v}) = 1

\* With no call running: no snapshot entry when disabled; otherwise the
\* counter is below the interval, every snapshot stands for at least
\* interval registered changes, and after single-change edits exactly for
\* interval of them; a snapshot entry carries the item's blob key.
SnapshotsCounted ==
    \A i \in ItemIds :
        LET P == Cardinality(LogsOf(i, "patch"))
            S == Cardinality(LogsOf(i, "snapshot"))
        IN
        Quiescent =>
            /\ interval = 0 => S = 0
            /\ interval > 0 =>
                  /\ changeCounters[i] < interval
                  /\ interval * S + changeCounters[i] <= P
                  /\ SingleChangeOnly(i) => P = interval * S + changeCounters[i]
            /\ \A k \in LogsOf(i, "snapshot") :
                  history[k].s3PathAfter = meta[i].s3Path

\* A call registers its changes: a snapshot is due exactly when snapshots
\* are enabled and the total reaches the interval, and then the counter is
\* reset; the entry appended carries the version the call committed.
SnapshotStep ==
    /\ \A i \in ItemIds :
          Cardinality({k \in 1..Len(history') : /\ history'[k].itemId = i
                                                /\ history'[k].action = "snapshot"})
                > Cardinality(LogsOf(i, "snapshot"))
              => \E t \in Callers : /\ th[t].pc = "log_snapshot" /\ th[t].item = i
                                    /\ th'[t].pc = "done"
    /\ \A s \in Callers :
        LET r == th[s]
            i == r.item
        IN
        /\ r.pc = "snapshot" /\ th'[s].pc # "snapshot"
              => /\ th'[s].pc = "log_snapshot"
                      <=> (interval > 0
                           /\ changeCounters[i] + Len(r.changes) >= interval)
                 /\ th'[s].pc = "log_snapshot" => changeCounters'[i] = 0
                 /\ th'[s].pc # "log_snapshot" /\ interval > 0
                      => changeCounters'[i] = changeCounters[i] + Len(r.changes)
        /\ r.pc = "log_snapshot" /\ th'[s].pc # "log_snapshot"
              => /\ history' = Append(history, history'[Len(history')])
                 /\ history'[Len(history')].action = "snapshot"
                 /\ history'[Len(history')].itemVersion
                        = casLog[i][LastCommitBy(i, s)].new
                 /\ history'[Len(history')].s3PathAfter = meta[i].s3Path

RestorePoints == {"create", "snapshot"}

\* The call of s is a RevertToAction that has fetched its target log.
Resolved(s) == th[s].op = "revert" /\ th[s].pc \notin {"idle", "rv_getlog"}

\* The target of the revert of s cannot be reverted to by its requester: the
\* log is missing, is no restore point, or refers to an item of another user.
Refused(s) ==
    \/ th[s].targetLog = NoLog
    \/ th[s].targetLog.action \notin RestorePoints
    \/ ItemOwner(th[s].targetLog.itemId) # th[s].user

\* C18: a RevertToAction that returns success had an existing target log
\* with action create or snapshot and a requester who owns the item; a
\* revert whose log is missing, has another action, or whose requester is
\* not the owner returns an error, and no step of it changes blob, metadata,
\* history or snapshot counter.
C18_RevertValidated ==
    [][\A s \in Callers :
          /\ Returned(s, "revert", "ok")' => Resolved(s)' /\ ~Refused(s)'
          /\ th[s].op = "revert" /\ th[s].pc = "rv_getlog" /\ th'[s] # th[s]
                /\ Refused(s)'
                => /\ th'[s].pc = "done" \/ ItemOwner(th'[s].item) # th'[s].user
                   /\ UNCHANGED <<storage, meta, history, changeCounters>>
          /\ Resolved(s) /\ Refused(s) /\ th'[s] # th[s]
                => /\ th'[s].pc = "done" => th'[s].err # "ok" \/ th[s].pc = "done"
                   /\ th'[s].pc \in {"meta_cache", "meta_db", "meta_set", "done", "idle"}
                   /\ UNCHANGED <<storage, meta, history, changeCounters>>
      ]_vars

\* The owner's revert to a patch entry has been refused.
C18_Witness ==
    \E c \in Callers :
        /\ Returned(c, "revert", "RevertNotAllowed")
        /\ th[c].targetLog.action = "patch"
        /\ th[c].user = ItemOwner(th[c].targetLog.itemId)

\* The revert entries in the history for version v of item i.
RevertLogs(i, v) == {k \in LogsOf(i, "revert") : history[k].itemVersion = v}

RaceBaseVersions(i) ==
    BaseVersions(i) \cup (IF cacheMeta[i].exists THEN {cacheMeta[i].version} ELSE {})

RaceApplyItemChanges(s) ==
    \E i \in ItemIds : \E b \in RaceBaseVersions(i) :
        /\ BeginWithin(s, [Call(Creator, "apply", i) EXCEPT !.base = b,
                                                          !.changes = <<InsB>>],
                       MaxRaceCalls)

\* RevertToAction of the owner to the create entry.
RaceRevertToAction(s) ==
    /\ BeginWithin(s, [Idle EXCEPT !.op = "revert", !.user = Creator,
                                   !.logId = 1, !.pc = "rv_getlog"],
                   MaxRaceCalls)

RaceGetItemContent(s) ==
    \E i \in ItemIds :
        /\ BeginWithin(s, Call(Creator, "get", i), MaxRaceCalls)

StepRace(s) ==
    \/ MetaCacheGet(s) \/ MetaDbGet(s) \/ MetaCacheSet(s)
    \/ ContentCacheGet(s) \/ DownloadFile(s) \/ ContentCacheSet(s)
    \/ UploadFile(s) \/ UpdateMeta(s) \/ getItemVersion(s)
    \/ CacheDeleteItemMeta(s) \/ CacheInvalidateItemContent(s) \/ CacheSetNewContent(s)
    \/ LogPatch(s) \/ handleSnapshotting(s) \/ LogSnapshot(s)
    \/ GetHistoryLogByID(s) \/ DownloadRevertContent(s) \/ LogRevert(s)
    \/ ResetCounter(s)

NextRace ==
    \E s \in Callers :
        \/ RaceGetItemContent(s) \/ RaceApplyItemChanges(s) \/ RaceRevertToAction(s)
        \/ StepRace(s)
        \/ Finish(s)

SpecRace == InitCache /\ [][NextRace]_vars

\* The call of s has made its blob upload, so it has reached or passed its
\* metadata update.
ReachedCas(s) == "blob" \in th[s].touched /\ th[s].pc # "cas"

Committed(s) == "meta" \in th[s].touched

\* A RevertToAction of c and an ApplyItemChanges of d that loaded the same
\* version of the same item and both attempted their metadata update.
Raced(c, d) ==
    /\ th[c].op = "revert" /\ th[d].op = "apply"
    /\ th[c].item = th[d].item /\ th[c].curVer = th[d].curVer
    /\ ReachedCas(c) /\ ReachedCas(d)

\* C20: of a RevertToAction and an ApplyItemChanges that raced on an item
\* exactly one committed its version; a revert whose metadata update failed
\* returns Inconsistent, not VersionConflict, and appended no revert entry.
C20_RevertRace ==
    /\ \A c, d \in Callers : Raced(c, d) => (Committed(c) <=> ~Committed(d))
    /\ \A c \in Callers :
          th[c].op = "revert" /\ ReachedCas(c) /\ ~Committed(c)
              => /\ Returned(c, "revert", "Inconsistent")
                 /\ "history" \notin th[c].touched

\* ------------------------------------------------ calls on a deleted item
\* Calls made from the state of InitCache.
MaxDeleteCalls == 3

\* A DeleteItem of item i has appended its delete entry and no DeleteItem of
\* the item is running: the delete has returned.
DeleteReturned(i) ==
    /\ LogsOf(i, "delete") # {}
    /\ \A c \in Callers :
          ~(th[c].op = "delete" /\ th[c].item = i /\ th[c].pc \notin {"idle", "done"})

\* The mark (kept in touched) of a call issued after the delete of its item
\* returned.
Issued(i) == IF DeleteReturned(i) THEN {"after_delete"} ELSE {}

DeletedCall(u, op, i) == [Call(u, op, i) EXCEPT !.touched = Issued(i)]

DeletedGetItemContent(s) ==
    \E i \in ItemIds :
        /\ BeginWithin(s, DeletedCall(Creator, "get", i), MaxDeleteCalls)

DeletedApplyItemChanges(s) ==
    \E i \in ItemIds : \E b \in RaceBaseVersions(i) :
        /\ BeginWithin(s, [DeletedCall(Creator, "apply", i) EXCEPT
                             !.base = b, !.changes = <<InsB>>],
                       MaxDeleteCalls)

DeletedGetHistory(s) ==
    \E i \in ItemIds :
        /\ BeginWithin(s, DeletedCall(Creator, "history", i), MaxDeleteCalls)

DeletedRevertToAction(s) ==
    /\ BeginWithin(s, [Idle EXCEPT !.op = "revert", !.user = Creator,
                                   !.logId = 1, !.pc = "rv_getlog",
                                   !.touched = Issued(history[1].itemId)],
                   MaxDeleteCalls)

DeletedDeleteItem(s) ==
    \E i \in ItemIds :
        /\ BeginWithin(s, Call(Creator, "delete", i), MaxDeleteCalls)

NextDelete ==
    \E s \in Callers :
        \/ DeletedGetItemContent(s) \/ DeletedApplyItemChanges(s)
        \/ DeletedGetHistory(s) \/ DeletedRevertToAction(s)
        \/ DeletedDeleteItem(s)
        \/ Step(s)
        \/ Finish(s)

SpecDelete == InitCache /\ [][NextDelete]_vars

\* The DeleteItem of s deleted the item's metadata and has returned.
Deleted(s) == Returned(s, "delete", "ok") /\ "meta" \in th[s].touched

\* C21: a GetItemContent, ApplyItemChanges, GetHistory or RevertToAction
\* issued on an item after its DeleteItem returned returns NotFound, also
\* when other calls were reading the item's metadata during the delete; the
\* delete appended a delete entry with the blob key and the version it
\* loaded, kept the earlier entries, and cleared the snapshot counter when it
\* returned.
C21_DeletedItemNotFound ==
    /\ [](\A c \in Callers :
             th[c].pc = "done" /\ "after_delete" \in th[c].touched
                 => th[c].err = "NotFound")
    /\ [][\A s \in Callers :
             /\ th[s].op = "delete" /\ th'[s] # th[s]
                   => /\ Len(history') >= Len(history)
                      /\ SubSeq(history', 1, Len(history)) = history
             /\ ~Deleted(s) /\ Deleted(s)'
                   => /\ changeCounters'[th[s].item] = 0
                      /\ \E k \in LogsOf(th[s].item, "delete") :
                            /\ history[k].s3PathBefore = th[s].s3Path
                            /\ history[k].itemVersion = th[s].curVer
                            /\ history[k].userId = th[s].user
        ]_vars

\* ---------------------------------------------- history versions (C22)
MaxHistoryCalls == 2

\* The change lists ApplyItemChanges accepts: it has no check on the length
\* of the list, so the empty list is one of them.
HistoryBatches == {<<>>, <<InsB>>, <<InsB, InsB>>}

HistoryApplyItemChanges(s) ==
    \E i \in ItemIds : \E b \in BaseVersions(i), c \in HistoryBatches :
        /\ BeginWithin(s, [Call(Creator, "apply", i) EXCEPT !.base = b,
                                                          !.changes = c],
                       MaxHistoryCalls)

HistoryRevertToAction(s) ==
    \E l \in 1..Len(history) :
        /\ BeginWithin(s, [Idle EXCEPT !.op = "revert", !.user = Creator,
                                       !.logId = l, !.pc = "rv_getlog"],
                       MaxHistoryCalls)

\* The steps of ApplyItemChanges and RevertToAction.
StepHistory(s) ==
    \/ MetaCacheGet(s) \/ MetaDbGet(s) \/ MetaCacheSet(s)
    \/ ContentCacheGet(s) \/ DownloadFile(s)
    \/ UploadFile(s) \/ UpdateMeta(s) \/ getItemVersion(s)
    \/ CacheDeleteItemMeta(s) \/ CacheInvalidateItemContent(s) \/ CacheSetNewContent(s)
    \/ LogPatch(s) \/ handleSnapshotting(s) \/ LogSnapshot(s)
    \/ GetHistoryLogByID(s) \/ DownloadRevertContent(s) \/ LogRevert(s)
    \/ ResetCounter(s)

NextHistory ==
    \E s \in Callers :
        \/ HistoryApplyItemChanges(s) \/ HistoryRevertToAction(s)
        \/ StepHistory(s)
        \/ Finish(s)

SpecHistory == InitFault /\ [][NextHistory]_vars

\* The distinct itemVersion values of the create, patch and revert entries
\* of item i.
LoggedVersions(i) ==
    {history[k].itemVersion :
        k \in LogsOf(i, "create") \cup LogsOf(i, "patch") \cup LogsOf(i, "revert")}

EmptyEdits(i) ==
    {casLog[i][k].new : k \in {j \in DOMAIN casLog[i] :
        casLog[i][j].op = "apply" /\ casLog[i][j].changes = 0}}

Stamp(entry, t) ==
    [f \in DOMAIN entry \cup {"timestamp"} |->
        IF f = "timestamp" THEN t ELSE entry[f]]

CreateLog(i) ==
    Stamp([HistoryLog("create", Creator, i, 1)
             EXCEPT !.s3PathAfter = generateS3Path(Creator, i)], 0)

\* The state after the two items were created at time 0: LogAction has
\* written the create entry of each, and no call is in progress.
InitLog ==
    /\ meta = [i \in ItemIds |-> Post(Creator, 1, generateS3Path(Creator, i))]
    /\ storage = [k \in Keys |-> IF \E i \in ItemIds : k = generateS3Path(Creator, i)
                                 THEN Object(InitialContent) ELSE NoObject]
    /\ cacheMeta = [i \in ItemIds |-> NoMeta]
    /\ cacheContent = [iv \in ItemIds \X Versions |-> NoObject]
    /\ history = <<CreateLog("i1"), CreateLog("i2")>>
    /\ historyItems = [key \in HistoryKeys |->
                          IF key = <<"i1", 0>> THEN 1
                          ELSE IF key = <<"i2", 0>> THEN 2 ELSE 0]
    /\ changeCounters = [i \in ItemIds |-> 0]
    /\ interval = SnapshotInterval
    /\ counterMutex = "free"
    /\ th = [s \in Sessions |-> Idle]
    /\ calls = 0
    /\ versionContent = [i \in ItemIds |-> <<InitialContent>>]
    /\ casLog = [i \in ItemIds |-> <<>>]
    /\ clients = {}
    /\ subscribers = [i \in ItemIds |-> {}]
    /\ send = [s \in Sessions |-> <<>>]
    /\ conn = [s \in Sessions |-> "new"]
    /\ unregistering = {}
    /\ userID = [s \in Sessions |-> NoUser]
    /\ panicked = FALSE
    /\ subReqs = 0
    /\ received = [s \in Sessions |-> <<>>]
    /\ pump = [s \in Sessions |-> Pumping]

\* The ids of the entries appended for item i.
ItemLogs(i) == {k \in 1..Len(history) : history[k].itemId = i}

\* The version the next edit of item i commits from: the last version an
\* entry was written for or a call in progress has committed.
CommittedVersion(i) ==
    LET logged == {history[k].itemVersion : k \in ItemLogs(i)}
        inCall == {th[c].curVer + 1 : c \in {d \in Callers : th[d].pc = "log_patch"
                                                            /\ th[d].item = i}}
        vs == logged \cup inCall
    IN  CHOOSE v \in vs : \A w \in vs : w <= v

LogBatches == {<<InsB>>, <<InsB, InsB>>}

\* ApplyItemChanges has committed a batch and reaches its loop over the
\* changes: now was read before the metadata update and is the Timestamp of
\* every patch entry of the batch.
LogApplyItemChanges(s) ==
    \E i \in LogItemIds, c \in LogBatches :
        /\ th[s].pc = "idle"
        /\ calls < MaxTime
        /\ calls' = calls + 1
        /\ Set(s, [Idle EXCEPT !.op = "apply", !.user = Creator, !.item = i,
                               !.changes = c, !.curVer = CommittedVersion(i),
                               !.now = calls + 1, !.pc = "log_patch", !.k = 1])
        /\ UNCHANGED <<hubVars, counterMutex, interval, historyItems, meta, storage, cacheMeta,
                       cacheContent, history, changeCounters, versionContent, casLog>>

\* One LogAction of the loop.  MongoClient.LogAction and
\* FirestoreClient.LogAction insert a document with a new id;
\* DynamoDBClient.LogAction puts an item keyed by the new id and a second
\* item keyed by the item id and the Timestamp, which replaces the item that
\* is stored under that key.
LogActionPatch(s) ==
    LET r == th[s]
        entry == Stamp([HistoryLog("patch", r.user, r.item, r.curVer + 1)
                          EXCEPT !.changeData = r.changes[r.k]], r.now)
    IN
    /\ r.pc = "log_patch"
    /\ r.now > 0
    /\ history' = LogAction(entry)
    /\ historyItems' = [historyItems EXCEPT ![<<r.item, r.now>>] = Len(history) + 1]
    /\ Set(s, IF r.k < Len(r.changes)
              THEN [Touch(r, "history") EXCEPT !.k = @ + 1]
              ELSE Return(Touch(r, "history"), "ok", r.curVer + 1, r.changes))
    /\ UNCHANGED <<hubVars, counterMutex, interval, meta, storage, cacheMeta, cacheContent,
                   changeCounters, calls, versionContent, casLog>>

defaultLimit == 50

Take(q, n) == SubSeq(q, 1, IF n < Len(q) THEN n ELSE Len(q))

\* The query on the partition of item i, ScanIndexForward false: the items
\* by descending sort key, from timestamp t down.
RECURSIVE HistoryItemsFrom(_, _)
HistoryItemsFrom(i, t) ==
    IF t < 0 THEN <<>>
    ELSE (IF historyItems[<<i, t>>] # 0 THEN <<historyItems[<<i, t>>]>> ELSE <<>>)
         \o HistoryItemsFrom(i, t - 1)

DynamoGetActionHistory(i, limit) ==
    Take(HistoryItemsFrom(i, MaxTime), IF limit <= 0 THEN defaultLimit ELSE limit)

\* The ids of a set of logs, the last inserted first.
RECURSIVE Descending(_)
Descending(S) ==
    IF S = {} THEN <<>>
    ELSE LET m == CHOOSE k \in S : \A j \in S : j <= k
         IN  <<m>> \o Descending(S \ {m})

\* Find with the filter on the item and the sort on timestamp descending.
RECURSIVE LogsByTimeFrom(_, _)
LogsByTimeFrom(i, t) ==
    IF t < 0 THEN <<>>
    ELSE Descending({k \in ItemLogs(i) : history[k].timestamp = t})
         \o LogsByTimeFrom(i, t - 1)

MongoGetActionHistory(i, limit) ==
    LET q == LogsByTimeFrom(i, MaxTime)
    IN  IF limit > 0 THEN Take(q, limit) ELSE q

\* The limits a list is asked with: none, one entry, and more than the
\* entries there can be.
Limits == {0, 1, 2 * (MaxTime + 1)}

DynamoGetHistory(s) ==
    \E i \in LogItemIds, limit \in Limits :
        /\ th[s].pc = "idle"
        /\ Set(s, [Return([Idle EXCEPT !.op = "history", !.user = Creator,
                                       !.item = i, !.base = limit], "ok", 0, <<>>)
                     EXCEPT !.list = DynamoGetActionHistory(i, limit)])
        /\ UNCHANGED <<svcVars, hubVars>>

MongoGetHistory(s) ==
    \E i \in LogItemIds, limit \in Limits :
        /\ th[s].pc = "idle"
        /\ Set(s, [Return([Idle EXCEPT !.op = "history", !.user = Creator,
                                       !.item = i, !.base = limit], "ok", 0, <<>>)
                     EXCEPT !.list = MongoGetActionHistory(i, limit)])
        /\ UNCHANGED <<svcVars, hubVars>>

NextLog ==
    \E s \in Callers :
        \/ LogApplyItemChanges(s) \/ LogActionPatch(s)
        \/ DynamoGetHistory(s) \/ MongoGetHistory(s)
        \/ Finish(s)

SpecLog == InitLog /\ [][NextLog]_vars

\* C23: the history log is append-only: a step of the system (an append
\* included) leaves every entry that has been appended as it is, the
\* document or item stored under its id and the item stored for the query
\* by item.
C23_HistoryAppendOnly ==
    [][/\ Len(history') >= Len(history)
       /\ \A k \in 1..Len(history) : history'[k] = history[k]
       /\ \A key \in HistoryKeys :
             historyItems[key] # 0 => historyItems'[key] = historyItems[key]]_vars

Range(q) == {q[j] : j \in 1..Len(q)}

NewestFirst(q) ==
    \A a, b \in 1..Len(q) : a < b => history[q[a]].timestamp >= history[q[b]].timestamp

\* What list(itemId, itemType, limit) is to return: entries of the item
\* newest first, and each entry appended for it when the limit allows.
ListsEveryEntry(q, i, limit) ==
    /\ Range(q) \subseteq ItemLogs(i)
    /\ NewestFirst(q)
    /\ limit >= Cardinality(ItemLogs(i)) => Range(q) = ItemLogs(i)

\* C30: with each adapter, list(itemId, itemType, limit) returns entries of
\* the item newest-first and, when limit is at least the number of entries
\* appended for the item, every one of them, the patch entries of a batch of
\* several changes (one timestamp, one itemVersion) included.
C30_ListReturnsEveryEntry ==
    \A i \in LogItemIds, limit \in Limits \ {0} :
        /\ ListsEveryEntry(MongoGetActionHistory(i, limit), i, limit)
        /\ ListsEveryEntry(DynamoGetActionHistory(i, limit), i, limit)

\* ------------------------------------------ reply to a closed queue (C25)
\* The handler of session s makes its reply: the service call or the hub
\* request it waited for is over and it calls sendJSON.
Replies(s) == th[s].pc \in {"done", "ack"} /\ th'[s].pc # th[s].pc

\* C25: when the send queue of a session has been closed while a request of
\* the session was in progress, the handler's reply is discarded: nothing is
\* enqueued into the closed queue and no send on the closed queue fails.
C25_ClosedQueueDiscardsResponse ==
    [][\A s \in Sessions :
          conn[s] = "closed" /\ Replies(s) =>
              send'[s] = send[s] /\ panicked' = panicked]_vars

\* ------------------------------------------------- sessions (C24, C26)
\* The seq of a request: 0 is a request without seq.
MaxSeq == 1

Seqs == 0..MaxSeq

Token(alg, signed, expired, sub) ==
    [alg |-> alg, signed |-> signed, expired |-> expired, sub |-> sub]

\* The tokens a client sends: one issued to each user, and tokens that are
\* expired, signed with another key, made with another signing method, or
\* without a subject.
Tokens ==
    {Token("HS256", TRUE, FALSE, u) : u \in Users}
    \cup {Token("HS256", TRUE, TRUE, "u1"), Token("HS256", FALSE, FALSE, "u1"),
          Token("RS256", TRUE, FALSE, "u1"), Token("HS256", TRUE, FALSE, NoUser)}

\* ValidateJWT: the subject of the token, or NoUser for an error (the key
\* function refuses a method that is not HMAC, jwt.Parse a signature that
\* does not verify and an expired token, and the sub claim must be a
\* non-empty string).
ValidateJWT(t) ==
    IF t.alg # "HS256" \/ ~t.signed \/ t.expired THEN NoUser
    ELSE t.sub

\* The state after HandleConnections registered the sessions and CreatePost
\* of the creator ran in an earlier session: no session is authenticated or
\* subscribed.
InitSession ==
    LET u == Creator
        path(i) == generateS3Path(u, i)
    IN
    /\ meta = [i \in ItemIds |-> Post(u, 1, path(i))]
    /\ storage = [k \in Keys |-> IF \E i \in ItemIds : k = path(i)
                                 THEN Object(InitialContent) ELSE NoObject]
    /\ cacheMeta = [i \in ItemIds |-> Post(u, 1, path(i))]
    /\ cacheContent = [iv \in ItemIds \X Versions |->
                          IF iv[2] = 1 THEN Object(InitialContent) ELSE NoObject]
    /\ history = <<[HistoryLog("create", u, "i1", 1) EXCEPT !.s3PathAfter = path("i1")]>>
    /\ changeCounters = [i \in ItemIds |-> 0]
    /\ interval = SnapshotInterval
    /\ counterMutex = "free"
    /\ historyItems = NoHistoryItems
    /\ th = [s \in Sessions |-> Idle]
    /\ calls = 0
    /\ versionContent = [i \in ItemIds |-> <<InitialContent>>]
    /\ casLog = [i \in ItemIds |-> <<>>]
    /\ clients = Sessions
    /\ subscribers = [i \in ItemIds |-> {}]
    /\ send = [s \in Sessions |-> <<>>]
    /\ conn = [s \in Sessions |-> "open"]
    /\ unregistering = {}
    /\ userID = [s \in Sessions |-> NoUser]
    /\ panicked = FALSE
    /\ subReqs = 0
    /\ received = [s \in Sessions |-> <<>>]
    /\ pump = [s \in Sessions |-> Pumping]

\* The actions of the frames that are not auth.
FrameActions == {"get", "apply", "create", "delete", "subscribe", "unsubscribe",
                 "history", "revert"}

\* readPump hands a frame to processMessage.
Reading(s) ==
    /\ HubTurn /\ conn[s] = "open" /\ th[s].pc = "idle"
    /\ pump[s].read = "running"

\* processMessage, msg.Action == "auth": the frame of a client that is not
\* authenticated goes to handleAuth.
processAuth(s) ==
    /\ Reading(s)
    /\ userID[s] = NoUser
    /\ \E t \in Tokens, q \in Seqs :
          Set(s, [Idle EXCEPT !.pc = "auth", !.op = "auth", !.seq = q, !.token = t])
    /\ UNCHANGED <<svcVars, hubVars>>

\* handleAuth: the token is verified; a valid one makes the client
\* authenticated as its subject (auth_success), another one is answered with
\* auth_error.
handleAuth(s) ==
    LET r == th[s]
        u == ValidateJWT(r.token)
    IN
    /\ ~panicked
    /\ r.pc = "auth"
    /\ userID' = IF u # NoUser THEN [userID EXCEPT ![s] = u] ELSE userID
    /\ sendJSON(s, Response(IF u # NoUser THEN "auth_success" ELSE "auth_error",
                            "", 0, r.seq))
    /\ Set(s, Idle)
    /\ UNCHANGED <<svcVars, clients, subscribers, conn, unregistering, subReqs,
                   received, pump>>

\* processMessage, !client.isAuthenticated: a frame with another action.
processUnauthenticated(s) ==
    /\ Reading(s)
    /\ userID[s] = NoUser
    /\ \E a \in FrameActions, q \in Seqs :
          Set(s, [Idle EXCEPT !.pc = "unauth", !.op = a, !.seq = q])
    /\ UNCHANGED <<svcVars, hubVars>>

\* The auth required error is sent and processMessage returns.
sendAuthRequired(s) ==
    /\ ~panicked
    /\ th[s].pc = "unauth"
    /\ sendJSON(s, Response("error", "", 0, th[s].seq))
    /\ Set(s, Idle)
    /\ UNCHANGED <<svcVars, clients, subscribers, conn, unregistering, userID,
                   subReqs, received, pump>>

\* Service calls made by the sessions.
MaxSessionCalls == 1

\* processMessage for an authenticated client: the handler of the frame's
\* action is called with the frame's seq and calls the service.
ServiceRequest(s, r) ==
    /\ Serving(s)
    /\ s \in Callers
    /\ \E q \in Seqs : BeginWithin(s, [r EXCEPT !.seq = q], MaxSessionCalls)

processGetContent(s) ==
    \E i \in ItemIds : ServiceRequest(s, Call(userID[s], "get", i))

processApplyChanges(s) ==
    \E i \in ItemIds : \E b \in BaseVersions(i) :
        ServiceRequest(s, [Call(userID[s], "apply", i) EXCEPT !.base = b,
                                                           !.changes = <<InsB>>])

processDeleteItem(s) ==
    \E i \in ItemIds : ServiceRequest(s, Call(userID[s], "delete", i))

processGetHistory(s) ==
    \E i \in ItemIds : ServiceRequest(s, Call(userID[s], "history", i))

processRevertAction(s) ==
    \E l \in 1..Len(history) :
        ServiceRequest(s, [Idle EXCEPT !.op = "revert", !.user = userID[s],
                                       !.logId = l, !.pc = "rv_getlog"])

\* subscribe and unsubscribe: the handler blocks on the hub's channel.
HubRequest(s, op) ==
    /\ Serving(s)
    /\ subReqs < MaxSubs
    /\ subReqs' = subReqs + 1
    /\ \E i \in ItemIds, q \in Seqs :
          Set(s, [Idle EXCEPT !.pc = op, !.op = op, !.user = userID[s],
                              !.item = i, !.seq = q])
    /\ UNCHANGED <<svcVars, clients, subscribers, send, conn, unregistering,
                   userID, panicked, received, pump>>

processSubscribe(s) == HubRequest(s, "subscribe")

processUnsubscribe(s) == HubRequest(s, "unsubscribe")

\* The steps of the service calls made here, which run one at a time: the
\* calls find the metadata and the content in the cache.
StepSession(s) ==
    \/ MetaCacheGet(s) \/ ContentCacheGet(s)
    \/ UploadFile(s) \/ UpdateMeta(s)
    \/ CacheDeleteItemMeta(s) \/ CacheInvalidateItemContent(s) \/ CacheSetNewContent(s)
    \/ LogPatch(s) \/ handleSnapshotting(s)
    \/ GetHistoryLogByID(s) \/ DownloadRevertContent(s) \/ LogRevert(s)
    \/ ResetCounter(s)
    \/ DeletePostMeta(s) \/ DeleteFile(s) \/ LogDelete(s)
    \/ GetActionHistory(s)

NextSession ==
    \E s \in Callers :
        \/ processAuth(s) \/ handleAuth(s)
        \/ processUnauthenticated(s) \/ sendAuthRequired(s)
        \/ processGetContent(s) \/ processApplyChanges(s) \/ processDeleteItem(s)
        \/ processGetHistory(s) \/ processRevertAction(s)
        \/ processSubscribe(s) \/ processUnsubscribe(s)
        \/ sendAck(s) \/ sendServiceError(s) \/ sendSuccess(s)
        \/ HubSubscribe(s) \/ HubUnsubscribe(s) \/ HubBroadcastToItem(s)
        \/ HubUnregister(s)
        \/ writePump(s)
        \/ StepSession(s)

SpecSession == InitSession /\ [][NextSession]_vars

\* A token that authenticates: signed by the issuer with the HMAC method,
\* not expired, with a subject.
TokenValid(t) == t.alg = "HS256" /\ t.signed /\ ~t.expired /\ t.sub # NoUser

\* Nothing is executed for session s: it has no request at a handler, at the
\* service or at the hub, and is subscribed to nothing.
NotServed(s) ==
    /\ th[s].pc \in {"idle", "auth", "unauth"}
    /\ \A i \in ItemIds : s \notin subscribers[i]

\* C24: no coordinator or hub operation is executed for a session that is
\* not authenticated; a session becomes authenticated only by an auth frame
\* with a valid token, as the token's subject; an auth frame with another
\* token leaves it unauthenticated; any other frame of an unauthenticated
\* session is answered by an error frame (when its queue has room) and
\* changes no state.
C24_UnauthExecutesNothing ==
    /\ [](\A s \in Sessions : userID[s] = NoUser => NotServed(s))
    /\ [][\A s \in Sessions :
             /\ userID'[s] # userID[s] =>
                   /\ userID[s] = NoUser
                   /\ th[s].pc = "auth"
                   /\ TokenValid(th[s].token)
             /\ th[s].pc = "auth" /\ th'[s].pc # "auth" =>
                   userID'[s] = IF TokenValid(th[s].token) THEN th[s].token.sub
                                ELSE NoUser
             /\ th[s].pc = "unauth" /\ th'[s].pc # "unauth" =>
                   /\ send'[s] = TrySend(send[s], Response("error", "", 0, th[s].seq))
                   /\ th'[s] = Idle
                   /\ UNCHANGED <<svcVars, userID, clients, subscribers, conn,
                                  unregistering, pump>>]_vars

\* c1 sent a request without authenticating and has the error frame in its
\* queue; c2 authenticated with its token and subscribed.
C24_Witness ==
    /\ userID["c1"] = NoUser
    /\ send["c1"] = <<Response("error", "", 0, 1)>>
    /\ th["c1"].pc = "idle"
    /\ userID["c2"] = "u2"
    /\ "c2" \in subscribers["i1"]

\* C26: a message enqueued to a session is a broadcast without seq, or the
\* response to the request the session's handler is processing, with the
\* seq of that request, be it a success or an error.
C26_ResponsesCarrySeq ==
    [][\A s \in Sessions :
          Len(send'[s]) > Len(send[s]) =>
              LET m == send'[s][Len(send'[s])] IN
              IF m.action \in BroadcastActions
              THEN m.seq = 0 /\ \E o \in Sessions \ {s} : th[o].pc = "submit"
              ELSE /\ th[s].pc \in {"done", "ack", "auth", "unauth"}
                   /\ m.seq = th[s].seq]_vars

\* c1's edit with seq 1 was applied: its changes_applied carries seq 1 and
\* the content_changed sent to the subscriber c2 carries none.
C26_Witness ==
    /\ send["c1"] = <<Response("changes_applied", "i1", 2, 1)>>
    /\ send["c2"] = <<Msg("content_changed", "i1", 2)>>

\* ---------------------------------------- metadata update, adapters (C27)
\* Calls of the adapters made from the state after CreatePost.
MaxCasCalls == 3

\* Mutant: the filter of the update names the document only.
Matches_AnyVersion(stored, expected) == stored.exists

\* The filter {_id, version: post.Version} of UpdateOne and the condition
\* version = :v of UpdateItem, which fails for a missing item as well.
Matches(stored, expected) == stored.exists /\ stored.version = expected

\* The first step of UpdatePostMeta in each adapter.
UpdatePcs == {"mongo_update", "dynamo_update", "firestore_tx"}

\* UpdatePostMeta(post) is called with post.Version = expected.
AdapterUpdatePostMeta(s) ==
    \E i \in ItemIds, pc \in UpdatePcs, expected \in Versions :
        BeginWithin(s, [Idle EXCEPT !.op = "update", !.user = Creator, !.item = i,
                                    !.base = expected,
                                    !.s3Path = generateS3Path(Creator, i),
                                    !.pc = pc],
                    MaxCasCalls)

\* The update succeeded: UpdatePostMeta returns nil.  The call's meta field
\* keeps the record the update step found.
Updated(s) ==
    LET r == th[s] IN
    /\ meta' = [meta EXCEPT ![r.item] = [@ EXCEPT !.version = @ + 1,
                                                  !.s3Path = r.s3Path]]
    /\ casLog' = [casLog EXCEPT ![r.item] =
                    Append(@, [by |-> s, op |-> r.op, base |-> r.base,
                               new |-> meta'[r.item].version, changes |-> 0])]
    /\ Set(s, Return([r EXCEPT !.meta = meta[r.item]], "ok", 0, <<>>))

\* MongoClient.UpdatePostMeta: UpdateOne with the filter and $inc; when no
\* document matched, CountDocuments is asked next.
MongoUpdateOne(s) ==
    LET r == th[s] IN
    /\ r.pc = "mongo_update"
    /\ IF Matches(meta[r.item], r.base)
       THEN Updated(s)
       ELSE /\ Set(s, [r EXCEPT !.pc = "mongo_count", !.meta = meta[r.item]])
            /\ UNCHANGED <<meta, casLog>>
    /\ UNCHANGED <<hubVars, counterMutex, interval, historyItems, storage, cacheMeta, cacheContent,
                   history, changeCounters, calls, versionContent>>

MongoCountDocuments(s) ==
    LET r == th[s] IN
    /\ r.pc = "mongo_count"
    /\ Set(s, Return(r, IF meta[r.item].exists THEN "VersionMismatch"
                        ELSE "NotFound", 0, <<>>))
    /\ UNCHANGED <<svcVars, hubVars>>

\* DynamoDBClient.UpdatePostMeta: UpdateItem with the condition; on
\* ConditionalCheckFailedException GetPostMetaByID is asked next.
DynamoUpdateItem(s) ==
    LET r == th[s] IN
    /\ r.pc = "dynamo_update"
    /\ IF Matches(meta[r.item], r.base)
       THEN Updated(s)
       ELSE /\ Set(s, [r EXCEPT !.pc = "dynamo_get", !.meta = meta[r.item]])
            /\ UNCHANGED <<meta, casLog>>
    /\ UNCHANGED <<hubVars, counterMutex, interval, historyItems, storage, cacheMeta, cacheContent,
                   history, changeCounters, calls, versionContent>>

DynamoGetPostMetaByID(s) ==
    LET r == th[s] IN
    /\ r.pc = "dynamo_get"
    /\ Set(s, Return(r, IF meta[r.item].exists THEN "VersionMismatch"
                        ELSE "NotFound", 0, <<>>))
    /\ UNCHANGED <<svcVars, hubVars>>

\* FirestoreClient.UpdatePostMeta: one transaction reads the document,
\* compares the version and updates.
FirestoreRunTransaction(s) ==
    LET r == th[s] IN
    /\ r.pc = "firestore_tx"
    /\ IF ~meta[r.item].exists
       THEN /\ Set(s, Return([r EXCEPT !.meta = meta[r.item]], "NotFound", 0, <<>>))
            /\ UNCHANGED <<meta, casLog>>
       ELSE IF meta[r.item].version # r.base
       THEN /\ Set(s, Return([r EXCEPT !.meta = meta[r.item]], "VersionMismatch",
                             0, <<>>))
            /\ UNCHANGED <<meta, casLog>>
       ELSE Updated(s)
    /\ UNCHANGED <<hubVars, counterMutex, interval, historyItems, storage, cacheMeta, cacheContent,
                   history, changeCounters, calls, versionContent>>

\* DeletePostMeta of another session while updates are in progress.
AdapterDeletePostMeta ==
    \E i \in ItemIds :
        /\ meta[i].exists
        /\ calls < MaxCasCalls
        /\ calls' = calls + 1
        /\ meta' = [meta EXCEPT ![i] = NoMeta]
        /\ UNCHANGED <<hubVars, counterMutex, interval, historyItems, storage, cacheMeta,
                       cacheContent, history, changeCounters, th, versionContent,
                       casLog>>

NextCas ==
    \/ AdapterDeletePostMeta
    \/ \E s \in Callers :
          \/ AdapterUpdatePostMeta(s)
          \/ MongoUpdateOne(s) \/ MongoCountDocuments(s)
          \/ DynamoUpdateItem(s) \/ DynamoGetPostMetaByID(s)
          \/ FirestoreRunTransaction(s)
          \/ Finish(s)

SpecCas == InitFault /\ [][NextCas]_vars

C28_CachedContentIsCommitted ==
    \A i \in ItemIds : \A v \in 1..Len(versionContent[i]) :
        cacheContent[<<i, v>>].present
            => cacheContent[<<i, v>>].data = versionContent[i][v]

\* ------------------------------------------- stale metadata and retries
\* Calls made from the state of InitCache when clients retry.
MaxRetryCalls == 4

\* What getItemMetaWithCache returns for item i in the current state: the
\* cached record if there is one, the stored record otherwise.
MetadataRead(i) == IF cacheMeta[i].exists THEN cacheMeta[i] ELSE meta[i]

StaleItemMeta(i) ==
    /\ cacheMeta[i].exists /\ meta[i].exists
    /\ cacheMeta[i].version < meta[i].version

FirstGetItemContent(s) ==
    \E i \in ItemIds :
        /\ BeginWithin(s, Call(Creator, "get", i), MaxRetryCalls)

\* The first attempt of an edit: the client submits the version it knows.
FirstApplyItemChanges(s) ==
    \E i \in ItemIds : \E b \in BaseVersions(i) :
        /\ BeginWithin(s, [Call(Creator, "apply", i) EXCEPT !.base = b,
                                                          !.changes = <<InsB>>],
                       MaxRetryCalls)

\* The client whose edit was answered VersionConflict sends the same changes
\* again with the version that the reply reported.
RetryApplyItemChanges(s) ==
    LET r == th[s] IN
    /\ r.pc = "done" /\ r.op = "apply" /\ r.err = "VersionConflict"
    /\ calls < MaxRetryCalls
    /\ calls' = calls + 1
    /\ Set(s, [Call(r.user, "apply", r.item) EXCEPT !.base = r.ver,
                                                    !.changes = r.changes,
                                                    !.retry = r.retry + 1])
    /\ UNCHANGED <<hubVars, counterMutex, interval, historyItems, meta, storage, cacheMeta, cacheContent, history,
                   changeCounters, versionContent, casLog>>

NextRetry ==
    \E s \in Callers :
        \/ FirstGetItemContent(s) \/ FirstApplyItemChanges(s)
        \/ RetryApplyItemChanges(s)
        \/ StepCache(s)
        \/ Finish(s)

SpecRetry == InitCache /\ [][NextRetry]_vars

\* An ApplyItemChanges of s whose metadata update was rejected returns
\* VersionConflict in this step.
CasRejection(s) ==
    /\ th[s].op = "apply" /\ th[s].pc = "get_version"
    /\ th'[s].pc = "done" /\ th'[s].err = "VersionConflict"

\* No call other than that of s is in progress.
Alone(s) == \A c \in Callers \ {s} : th[c].pc \in {"idle", "done"}

\* The retry of c was answered VersionConflict by the version test on the
\* loaded metadata, with a version below the one it submitted, and the cached
\* metadata still holds that version with no other call in progress.
RetryRejectedByCachedMeta(c) ==
    /\ Returned(c, "apply", "VersionConflict") /\ th[c].retry > 0
    /\ th[c].ver < th[c].base /\ th[c].touched = {}
    /\ Alone(c) /\ StaleItemMeta(th[c].item)
    /\ cacheMeta[th[c].item].version = th[c].ver

\* C29: when the cached metadata of an item holds a version below the stored
\* one, an ApplyItemChanges that relied on it is rejected by the metadata
\* update, and after the rejection a metadata read returns the stored version,
\* so that a retry with the version reported in VersionConflict is not
\* rejected by the cached metadata (checked when no other call is in
\* progress).
C29_RejectionForcesRefresh ==
    /\ [][\A s \in Callers :
            /\ CasRejection(s) /\ Alone(s)
            /\ StaleItemMeta(th[s].item)
            /\ th[s].curVer = cacheMeta[th[s].item].version
            => MetadataRead(th[s].item)'.version = meta'[th[s].item].version]_vars
    /\ [](\A c \in Callers : ~RetryRejectedByCachedMeta(c))

\* ------------------------------------------ failures on best-effort paths
\* Calls made from the state of InitFault when best-effort steps can fail.
MaxEffortCalls == 2

\* The steps whose error is logged and ignored: the cache reads, writes and
\* invalidations, the history appends, and the blob delete of DeleteItem.
BestEffortPcs == {"meta_cache", "meta_set", "content_cache", "content_set",
                  "cache_del_meta", "cache_inval", "cache_set_new",
                  "log_patch", "log_snapshot", "log_revert",
                  "del_blob", "log_delete"}

LogPcs == {"log_patch", "log_snapshot", "log_revert", "log_delete"}

\* Mutant: an error on a best-effort step is returned to the caller.
LogAndContinue_Aborts(r) == Return(Touch(r, "fault"), "Internal", 0, <<>>)

\* The call after a best-effort step returned an error: the error is logged
\* and the call goes on as after the step (a failed cache read is a miss).
LogAndContinue(r) ==
    LET f == Touch(r, "fault") IN
    CASE r.pc = "meta_cache" -> [f EXCEPT !.pc = "meta_db"]
      [] r.pc = "meta_set" -> Loaded(f, r.meta)
      [] r.pc = "content_cache" ->
            IF r.s3Path = NoPath THEN Return(f, "ok", r.curVer, <<>>)
            ELSE [f EXCEPT !.pc = "download"]
      [] r.pc = "content_set" -> Return(f, "ok", r.curVer, r.content)
      [] r.pc = "cache_del_meta" -> [f EXCEPT !.pc = "cache_inval"]
      [] r.pc = "cache_inval" ->
            [f EXCEPT !.pc = IF r.op = "delete" THEN "reset_counter"
                             ELSE "cache_set_new"]
      [] r.pc = "cache_set_new" ->
            [f EXCEPT !.pc = IF r.op = "revert" THEN "log_revert"
                             ELSE IF r.changes = <<>> THEN "snapshot"
                             ELSE "log_patch",
                      !.k = 1]
      [] r.pc = "log_patch" ->
            IF r.k < Len(r.changes) THEN [f EXCEPT !.k = @ + 1]
            ELSE [f EXCEPT !.pc = "snapshot"]
      [] r.pc = "log_snapshot" -> Return(f, "ok", r.curVer + 1, <<>>)
      [] r.pc = "log_revert" -> [f EXCEPT !.pc = "reset_counter"]
      [] r.pc = "del_blob" -> [f EXCEPT !.pc = "log_delete"]
      [] r.pc = "log_delete" -> [f EXCEPT !.pc = "cache_del_meta"]

\* A best-effort step of the call of s fails: the store it addressed is
\* unchanged.
BestEffortFails(s) ==
    /\ th[s].pc \in BestEffortPcs
    /\ Set(s, LogAndContinue(th[s]))
    /\ UNCHANGED <<hubVars, counterMutex, interval, historyItems, meta, storage, cacheMeta, cacheContent, history,
                   changeCounters, calls, versionContent, casLog>>

\* The entry that the history append at the call's position writes.
LogEntry(r) ==
    CASE r.pc = "log_patch" ->
            [HistoryLog("patch", r.user, r.item, r.curVer + 1)
               EXCEPT !.changeData = r.changes[r.k]]
      [] r.pc = "log_snapshot" ->
            [HistoryLog("snapshot", r.user, r.item, r.curVer + 1)
               EXCEPT !.s3PathAfter = r.s3Path]
      [] r.pc = "log_revert" ->
            [HistoryLog("revert", r.user, r.item, r.curVer + 1)
               EXCEPT !.s3PathAfter = r.s3Path, !.revertedToLogId = r.logId]
      [] r.pc = "log_delete" ->
            [HistoryLog("delete", r.user, r.item, r.curVer)
               EXCEPT !.s3PathBefore = r.s3Path]

\* DynamoDB LogAction: the first PutItem wrote the entry and the second, of
\* the item for the query by item, failed; LogAction returns the id.
LogActionIndexFails(s) ==
    /\ th[s].pc \in LogPcs
    /\ history' = LogAction(LogEntry(th[s]))
    /\ Set(s, LogAndContinue(Touch(th[s], "history")))
    /\ UNCHANGED <<hubVars, counterMutex, interval, historyItems, meta, storage, cacheMeta, cacheContent, changeCounters,
                   calls, versionContent, casLog>>

EffortBatches == {<<InsB>>, <<InsB, InsB>>}

EffortApplyItemChanges(s) ==
    \E i \in ItemIds : \E b \in BaseVersions(i), c \in EffortBatches :
        /\ BeginWithin(s, [Call(Creator, "apply", i) EXCEPT !.base = b,
                                                          !.changes = c],
                       MaxEffortCalls)

EffortRevertToAction(s) ==
    \E l \in 1..Len(history) :
        /\ BeginWithin(s, [Idle EXCEPT !.op = "revert", !.user = Creator,
                                       !.logId = l, !.pc = "rv_getlog"],
                       MaxEffortCalls)

EffortDeleteItem(s) ==
    \E i \in ItemIds :
        /\ BeginWithin(s, Call(Creator, "delete", i), MaxEffortCalls)

NextEffort ==
    \E s \in Callers :
        \/ EffortApplyItemChanges(s) \/ EffortRevertToAction(s)
        \/ EffortDeleteItem(s)
        \/ StepHistory(s)
        \/ DeletePostMeta(s) \/ DeleteFile(s) \/ LogDelete(s)
        \/ BestEffortFails(s) \/ LogActionIndexFails(s)
        \/ Finish(s)

SpecEffort == InitFault /\ [][NextEffort]_vars

\* The call of s has made its metadata update (or, for DeleteItem, its
\* metadata delete).
Settled(s) == th[s].op \in {"apply", "revert", "delete"} /\ "meta" \in th[s].touched

\* C31: when a history append, a cache read, write or invalidation, or the
\* blob delete of DeleteItem fails, the call that has made its metadata
\* update still returns success with the new version, the failing step
\* changes no store, and no later step of the call changes the metadata or
\* (other than DeleteItem's blob delete) the blob.
C31_BestEffortFailuresKeepOutcome ==
    /\ [](\A c \in Callers :
            Settled(c) /\ th[c].pc = "done"
                => /\ th[c].err = "ok"
                   /\ th[c].ver = IF th[c].op = "delete" THEN 0 ELSE th[c].curVer + 1)
    /\ [][\A s \in Callers :
            /\ Settled(s) /\ th'[s] # th[s]
                  => /\ meta' = meta
                     /\ th[s].op # "delete" => storage' = storage
            /\ "fault" \in th'[s].touched \ th[s].touched
                  => UNCHANGED <<meta, storage>>]_vars

C31_Witness ==
    \E c \in Callers :
        /\ Returned(c, "apply", "ok") /\ th[c].ver = 2
        /\ "fault" \in th[c].touched /\ "history" \notin th[c].touched
        /\ meta[th[c].item].version = 2
        /\ storage[th[c].s3Path] = Object(th[c].newContent)

\* ---------------------------------------------- the pumps of a session
\* readPump: c.conn.ReadMessage returns an error (the peer went away, the
\* read deadline passed, or the connection was closed); the loop ends and
\* the deferred function blocks on hub.unregister <- c.
readPumpFails(s) ==
    /\ ~panicked
    /\ pump[s].read = "running"
    /\ th[s].pc = "idle"
    /\ pump' = [pump EXCEPT ![s].read = "unregister"]
    /\ UNCHANGED <<svcVars, th, clients, subscribers, send, conn, unregistering,
                   userID, panicked, subReqs, received>>

\* The read on a connection that writePump (or the peer) has closed.
readPumpOnClosedConn(s) ==
    /\ pump[s].sock = "closed"
    /\ readPumpFails(s)

\* case client := <-h.unregister for the request of readPump: a registered
\* client is deleted and its send channel closed; readPump then closes the
\* connection and returns.
readPumpUnregister(s) ==
    /\ HubTurn
    /\ pump[s].read = "unregister"
    /\ pump' = [pump EXCEPT ![s].read = "exited", ![s].sock = "closed"]
    /\ IF s \in clients
       THEN /\ clients' = clients \ {s}
            /\ conn' = [conn EXCEPT ![s] = "closed"]
            /\ subscribers' = [k \in ItemIds |-> subscribers[k] \ {s}]
       ELSE UNCHANGED <<clients, conn, subscribers>>
    /\ UNCHANGED <<svcVars, th, send, unregistering, userID, panicked, subReqs,
                   received>>

\* writePump: NextWriter, w.Close or the ping returns an error (write
\* deadline, closed connection); the pump returns and closes the connection.
\* A message taken off c.send for that write is lost.
writePumpFails(s) ==
    /\ HubTurn
    /\ pump[s].write = "running"
    /\ \E taken \in BOOLEAN :
          send' = [send EXCEPT ![s] = IF taken /\ @ # <<>> THEN Tail(@) ELSE @]
    /\ pump' = [pump EXCEPT ![s].write = "exited", ![s].sock = "closed"]
    /\ UNCHANGED <<svcVars, th, clients, subscribers, conn, unregistering,
                   userID, panicked, subReqs, received>>

\* The write on a connection that readPump has closed.
writePumpOnClosedConn(s) ==
    /\ pump[s].sock = "closed"
    /\ writePumpFails(s)

\* writePump, case message, ok := <-c.send with !ok: the hub closed the
\* channel and the buffered messages are gone; the pump writes a close
\* frame and returns.
writePumpClosed(s) ==
    /\ HubTurn
    /\ pump[s].write = "running"
    /\ conn[s] = "closed" /\ send[s] = <<>>
    /\ pump' = [pump EXCEPT ![s].write = "exited", ![s].sock = "closed"]
    /\ UNCHANGED <<svcVars, th, clients, subscribers, send, conn, unregistering,
                   userID, panicked, subReqs, received>>

\* The steps of ApplyItemChanges.
StepPump(s) ==
    \/ MetaCacheGet(s) \/ MetaDbGet(s) \/ MetaCacheSet(s)
    \/ ContentCacheGet(s)
    \/ UploadFile(s) \/ UpdateMeta(s)
    \/ CacheDeleteItemMeta(s) \/ CacheInvalidateItemContent(s) \/ CacheSetNewContent(s)
    \/ LogPatch(s) \/ handleSnapshotting(s) \/ LogSnapshot(s)

NextPump ==
    \E s \in Sessions :
        \/ handleApplyChanges(s) \/ sendSuccess(s)
        \/ HubBroadcastToItem(s) \/ HubUnregister(s)
        \/ StepPump(s)
        \/ writePump(s) \/ writePumpFails(s) \/ writePumpClosed(s)
        \/ readPumpFails(s) \/ readPumpUnregister(s)

\* The state of InitHub with every session subscribed to the item and the
\* reply to the subscribe request of c1 still in its queue.
InitPump ==
    LET u == Creator
        path(i) == generateS3Path(u, i)
    IN
    /\ meta = [i \in ItemIds |-> Post(u, 1, path(i))]
    /\ storage = [k \in Keys |-> IF \E i \in ItemIds : k = path(i)
                                 THEN Object(InitialContent) ELSE NoObject]
    /\ cacheMeta = [i \in ItemIds |-> Post(u, 1, path(i))]
    /\ cacheContent = [iv \in ItemIds \X Versions |->
                          IF iv[2] = 1 THEN Object(InitialContent) ELSE NoObject]
    /\ history = <<[HistoryLog("create", u, "i1", 1) EXCEPT !.s3PathAfter = path("i1")]>>
    /\ changeCounters = [i \in ItemIds |-> 0]
    /\ interval = SnapshotInterval
    /\ counterMutex = "free"
    /\ historyItems = NoHistoryItems
    /\ th = [s \in Sessions |-> Idle]
    /\ calls = 0
    /\ versionContent = [i \in ItemIds |-> <<InitialContent>>]
    /\ casLog = [i \in ItemIds |-> <<>>]
    /\ clients = Sessions
    /\ subscribers = [i \in ItemIds |-> Sessions]
    /\ send = [s \in Sessions |->
                IF s = "c1" THEN <<Msg("subscribe_success", "i1", 0)>> ELSE <<>>]
    /\ conn = [s \in Sessions |-> "open"]
    /\ unregistering = {}
    /\ userID = TokenUser
    /\ panicked = FALSE
    /\ subReqs = 0
    /\ received = [s \in Sessions |-> <<>>]
    /\ pump = [s \in Sessions |-> Pumping]

SpecPump == InitPump /\ [][NextPump]_vars

\* The goroutines keep running: the hub loop, the handlers and their service
\* calls, and both pumps; every write ends within writeWait, with the message
\* written or with an error, and a read or write on a closed connection
\* fails. Nothing makes a peer fail or send a request.
SpecPumpFair ==
    /\ SpecPump
    /\ \A s \in Sessions :
          /\ WF_vars(HubBroadcastToItem(s))
          /\ WF_vars(HubUnregister(s))
          /\ WF_vars(readPumpUnregister(s))
          /\ WF_vars(StepPump(s))
          /\ WF_vars(sendSuccess(s))
          /\ WF_vars(writePump(s) \/ writePumpOnClosedConn(s))
          /\ WF_vars(writePumpClosed(s))
          /\ WF_vars(readPumpOnClosedConn(s))

SessionFailed(s) == pump[s].read # "running" \/ pump[s].write # "running"

SessionTerminated(s) ==
    /\ pump[s].read = "exited" /\ pump[s].write = "exited"
    /\ s \notin clients

\* C32: a session one of whose pumps has failed eventually terminates: both
\* pumps reach their end and the session is no longer registered in the hub.
C32_FailedSessionTerminates ==
    \A s \in Sessions : SessionFailed(s) ~> SessionTerminated(s)

\* ------------------------------------------------ the effect of a snapshot
\* The positions of a call inside handleSnapshotting.
SnapshotPcs == {"snapshot", "log_snapshot"}

\* C33: emitting a snapshot leaves the item unchanged: the steps of
\* handleSnapshotting change neither the metadata (version, blob key), nor
\* the blob, nor the caches; the counter step changes only the counter and
\* the append changes only the history, by one snapshot entry at its end.
C33_SnapshotLeavesItemUnchanged ==
    [][\A s \in Callers :
          th[s].pc \in SnapshotPcs /\ th'[s] # th[s]
              => /\ UNCHANGED <<meta, storage, cacheMeta, cacheContent>>
                 /\ th[s].pc = "snapshot" => history' = history
                 /\ th[s].pc = "log_snapshot"
                      => /\ changeCounters' = changeCounters
                         /\ Len(history') = Len(history) + 1
                         /\ SubSeq(history', 1, Len(history)) = history
                         /\ history'[Len(history')].action = "snapshot"]_vars

C33_Witness ==
    \E c \in Callers :
        LET i == th[c].item IN
        /\ Returned(c, "apply", "ok") /\ "history" \in th[c].touched
        /\ history[Len(history)].action = "snapshot"
        /\ history[Len(history)].itemVersion = meta[i].version
        /\ meta[i].version = th[c].ver
        /\ storage[meta[i].s3Path] = Object(th[c].newContent)
        /\ cacheContent[<<i, th[c].ver>>] = Object(th[c].newContent)

\* --------------------------------------------------- the counter mutex
\* Calls made from the state of InitFault when the counter sections are
\* taken step by step.
MaxMutexCalls == 2

\* The positions of a call between counterMutex.Lock and counterMutex.Unlock.
LockedPcs == {"snap_locked", "snap_added", "snap_unlock_log", "snap_unlock",
              "reset_locked", "reset_unlock"}

\* sync.Mutex.Unlock: unlocking a mutex that is not locked is a fatal error.
Unlock(m) == IF m = "free" THEN "fatal" ELSE "free"

\* handleSnapshotting: return when snapshots are disabled, else
\* s.counterMutex.Lock(), which waits until the mutex is free.
snapshotLock(s) ==
    LET r == th[s] IN
    /\ r.pc = "snapshot"
    /\ IF interval <= 0
       THEN /\ Set(s, Return(r, "ok", r.curVer + 1, <<>>))
            /\ UNCHANGED counterMutex
       ELSE /\ counterMutex = "free"
            /\ counterMutex' = s
            /\ Set(s, [r EXCEPT !.pc = "snap_locked"])
    /\ UNCHANGED <<hubVars, interval, historyItems, meta, storage, cacheMeta, cacheContent, history,
                   changeCounters, calls, versionContent, casLog>>

\* s.changeCounters[counterKey] += numChangesApplied.
snapshotAdd(s) ==
    LET r == th[s] IN
    /\ r.pc = "snap_locked"
    /\ changeCounters' = [changeCounters EXCEPT ![r.item] = @ + Len(r.changes)]
    /\ Set(s, [r EXCEPT !.pc = "snap_added"])
    /\ UNCHANGED <<hubVars, counterMutex, interval, historyItems, meta, storage, cacheMeta, cacheContent, history,
                   calls, versionContent, casLog>>

\* Mutant: the branch that takes a snapshot goes on to the append with the
\* mutex locked.
snapshotCount_LogsLocked(s) ==
    LET r == th[s]
        count == changeCounters[r.item]
    IN
    /\ r.pc = "snap_added"
    /\ IF count >= interval
       THEN /\ changeCounters' = [changeCounters EXCEPT ![r.item] = 0]
            /\ Set(s, [r EXCEPT !.pc = "log_snapshot"])
       ELSE /\ UNCHANGED changeCounters
            /\ Set(s, [r EXCEPT !.pc = "snap_unlock"])
    /\ UNCHANGED <<hubVars, counterMutex, interval, historyItems, meta, storage, cacheMeta, cacheContent, history,
                   calls, versionContent, casLog>>

\* Mutant: a batch that overshoots the interval carries the remainder.
snapshotCount_CarriesRemainder(s) ==
    LET r == th[s]
        count == changeCounters[r.item]
    IN
    /\ r.pc = "snap_added"
    /\ IF count >= interval
       THEN /\ changeCounters' = [changeCounters EXCEPT ![r.item] = count - interval]
            /\ Set(s, [r EXCEPT !.pc = "snap_unlock_log"])
       ELSE /\ UNCHANGED changeCounters
            /\ Set(s, [r EXCEPT !.pc = "snap_unlock"])
    /\ UNCHANGED <<hubVars, counterMutex, interval, historyItems, meta, storage, cacheMeta, cacheContent, history,
                   calls, versionContent, casLog>>

\* count := s.changeCounters[counterKey]; the test of the count and the
\* reset.
snapshotCount(s) ==
    LET r == th[s]
        count == changeCounters[r.item]
    IN
    /\ r.pc = "snap_added"
    /\ IF count >= interval
       THEN /\ changeCounters' = [changeCounters EXCEPT ![r.item] = 0]
            /\ Set(s, [r EXCEPT !.pc = "snap_unlock_log"])
       ELSE /\ UNCHANGED changeCounters
            /\ Set(s, [r EXCEPT !.pc = "snap_unlock"])
    /\ UNCHANGED <<hubVars, counterMutex, interval, historyItems, meta, storage, cacheMeta, cacheContent, history,
                   calls, versionContent, casLog>>

\* s.counterMutex.Unlock() of either branch: "Unlock before logging" where
\* a snapshot is due, and the else branch, after which the call returns.
snapshotUnlock(s) ==
    LET r == th[s] IN
    /\ r.pc \in {"snap_unlock_log", "snap_unlock"}
    /\ counterMutex' = Unlock(counterMutex)
    /\ Set(s, IF r.pc = "snap_unlock_log" THEN [r EXCEPT !.pc = "log_snapshot"]
              ELSE Return(r, "ok", r.curVer + 1, <<>>))
    /\ UNCHANGED <<hubVars, interval, historyItems, meta, storage, cacheMeta, cacheContent, history,
                   changeCounters, calls, versionContent, casLog>>

\* RevertToAction and DeleteItem: s.counterMutex.Lock().
resetLock(s) ==
    /\ th[s].pc = "reset_counter"
    /\ counterMutex = "free"
    /\ counterMutex' = s
    /\ Set(s, [th[s] EXCEPT !.pc = "reset_locked"])
    /\ UNCHANGED <<hubVars, interval, historyItems, meta, storage, cacheMeta, cacheContent, history,
                   changeCounters, calls, versionContent, casLog>>

\* delete(s.changeCounters, key).
resetDelete(s) ==
    /\ th[s].pc = "reset_locked"
    /\ changeCounters' = [changeCounters EXCEPT ![th[s].item] = 0]
    /\ Set(s, [th[s] EXCEPT !.pc = "reset_unlock"])
    /\ UNCHANGED <<hubVars, counterMutex, interval, historyItems, meta, storage, cacheMeta, cacheContent, history,
                   calls, versionContent, casLog>>

\* s.counterMutex.Unlock() and the return.
resetUnlock(s) ==
    LET r == th[s] IN
    /\ r.pc = "reset_unlock"
    /\ counterMutex' = Unlock(counterMutex)
    /\ Set(s, Return(r, "ok", IF r.op = "revert" THEN r.curVer + 1 ELSE 0, <<>>))
    /\ UNCHANGED <<hubVars, interval, historyItems, meta, storage, cacheMeta, cacheContent, history,
                   changeCounters, calls, versionContent, casLog>>

MutexApplyItemChanges(s) ==
    \E i \in ItemIds : \E b \in BaseVersions(i), c \in EffortBatches :
        /\ BeginWithin(s, [Call(Creator, "apply", i) EXCEPT !.base = b,
                                                          !.changes = c],
                       MaxMutexCalls)

MutexRevertToAction(s) ==
    \E l \in 1..Len(history) :
        /\ BeginWithin(s, [Idle EXCEPT !.op = "revert", !.user = Creator,
                                       !.logId = l, !.pc = "rv_getlog"],
                       MaxMutexCalls)

MutexDeleteItem(s) ==
    \E i \in ItemIds :
        /\ BeginWithin(s, Call(Creator, "delete", i), MaxMutexCalls)

\* The steps of the three operations, the sections under counterMutex
\* taken step by step.
StepMutex(s) ==
    \/ MetaCacheGet(s) \/ MetaDbGet(s) \/ MetaCacheSet(s)
    \/ ContentCacheGet(s) \/ DownloadFile(s)
    \/ UploadFile(s) \/ UpdateMeta(s) \/ getItemVersion(s)
    \/ CacheDeleteItemMeta(s) \/ CacheInvalidateItemContent(s) \/ CacheSetNewContent(s)
    \/ LogPatch(s) \/ LogSnapshot(s)
    \/ GetHistoryLogByID(s) \/ DownloadRevertContent(s) \/ LogRevert(s)
    \/ DeletePostMeta(s) \/ DeleteFile(s) \/ LogDelete(s)
    \/ snapshotLock(s) \/ snapshotAdd(s) \/ snapshotCount(s) \/ snapshotUnlock(s)
    \/ resetLock(s) \/ resetDelete(s) \/ resetUnlock(s)

NextMutex ==
    \E s \in Callers :
        \/ MutexApplyItemChanges(s) \/ MutexRevertToAction(s) \/ MutexDeleteItem(s)
        \/ StepMutex(s)
        \/ Finish(s)

SpecMutex == InitFault /\ [][NextMutex]_vars

\* A step of the call of s that reaches a store, the blob store, the cache
\* or the history.
DoesIO(s) ==
    /\ th'[s] # th[s]
    /\ <<meta, storage, cacheMeta, cacheContent, history>>'
          # <<meta, storage, cacheMeta, cacheContent, history>>

\* C34: counterMutex is held only across the read-modify-write of the
\* counter map: its holder is between Lock and Unlock and nowhere else (not
\* at the snapshot append, not returned), no step of the holder reaches a
\* store, the blob store or the cache, and the mutex changes hands only by a
\* Lock of a free mutex and by one Unlock made by its holder.
C34_MutexOnlyAroundCounter ==
    /\ [](/\ counterMutex # "fatal"
          /\ \A s \in Sessions : counterMutex = s <=> th[s].pc \in LockedPcs)
    /\ [][/\ \A s \in Callers : DoesIO(s) => counterMutex # s /\ counterMutex' # s
          /\ counterMutex' # counterMutex
                => \/ /\ counterMutex = "free"
                      /\ \E s \in Callers :
                            /\ counterMutex' = s
                            /\ th[s].pc \in {"snapshot", "reset_counter"}
                            /\ UNCHANGED changeCounters
                   \/ /\ counterMutex' = "free"
                      /\ \E s \in Callers :
                            /\ counterMutex = s
                            /\ th[s].pc \in {"snap_unlock_log", "snap_unlock",
                                             "reset_unlock"}
                            /\ UNCHANGED changeCounters]_vars

\* One call holds the mutex while another, which has released it, appends
\* its snapshot entry.
C34_Witness ==
    \E c, d \in Callers :
        /\ counterMutex = c /\ th[c].pc = "snap_locked"
        /\ th[d].pc = "log_snapshot"

\* ------------------------------------------- producers of a session queue
\* The step is the hub loop's dispatch of a broadcast: it takes the request
\* off the handler blocked on hub.broadcastToItem, which then returns.
IsHubDispatch == \E o \in Sessions : th[o].pc = "submit" /\ th'[o] = Idle

\* The step is the write pump of s taking the message at the head of c.send.
IsWritePump(s) == send[s] # <<>> /\ send'[s] = Tail(send[s])

\* C35: the queue of a session has one producer, the hub loop, and one
\* consumer, its write pump: a step that adds a message to a queue is a
\* dispatch of the hub loop, and a step that takes one off is the session's
\* write pump.
C35_SingleProducerSingleConsumer ==
    [][\A s \in Sessions :
          /\ Len(send'[s]) > Len(send[s]) => IsHubDispatch
          /\ Len(send'[s]) < Len(send[s]) => IsWritePump(s)]_vars

\* ------------------------------------------------- closing a session queue
\* The hub loop takes an unregister request for s: one sent by an eviction
\* goroutine or the one sent by the read pump on its way out.
UnregisterTaken(s) ==
    \/ s \in unregistering /\ s \notin unregistering'
    \/ pump[s].read = "unregister" /\ pump'[s].read = "exited"

\* C36: the hub closes a session's queue at most once however many
\* unregister requests are submitted for it (a request taken when the queue
\* is already closed changes neither the registered set nor a queue and
\* closes nothing again, and a closed queue stays closed); a session is
\* registered iff its queue is open; the hub's dispatch enqueues only into
\* open queues.
C36_QueueClosedOnce ==
    /\ [](\A s \in Sessions : s \in clients <=> conn[s] = "open")
    /\ [][\A s \in Sessions :
             /\ conn[s] = "closed" => conn'[s] = "closed"
             /\ UnregisterTaken(s) /\ conn[s] = "closed"
                   => UNCHANGED <<clients, conn, subscribers, send, panicked>>
             /\ IsHubDispatch /\ Len(send'[s]) > Len(send[s])
                   => conn[s] = "open" /\ s \in clients]_vars

\* The read pump's request has closed the queue of a session and an
\* eviction request for the same session is still to be taken.
C36_Witness ==
    \E s \in Sessions :
        /\ conn[s] = "closed" /\ pump[s].read = "exited"
        /\ s \in unregistering

\* ------------------------------------------- broadcasts follow the commit
\* The versions of item i set by a successful metadata update of an
\* ApplyItemChanges call of session s.
CommittedBy(s, i) ==
    {casLog[i][k].new : k \in {j \in DOMAIN casLog[i] :
                                  casLog[i][j].by = s /\ casLog[i][j].op = "apply"}}

\* The message a step has added to the queue of session c.
Enqueued(c) == send'[c][Len(send'[c])]

\* C37: a content_changed with newVersion v is submitted to the hub, and
\* enqueued by it, only after the metadata update of the same call has set
\* the item's version to v, and so is the changes_applied reply; a call of
\* ApplyItemChanges that returned an error submits no broadcast and sends
\* no changes_applied.
C37_BroadcastAfterCommit ==
    /\ [](\A s \in Sessions :
             th[s].pc = "submit" /\ th[s].op = "apply"
                => th[s].ver \in CommittedBy(s, th[s].item))
    /\ [][\A s \in Sessions :
             /\ th[s].pc = "done" /\ th[s].op = "apply" /\ th[s].err # "ok"
                  /\ th'[s] # th[s]
                   => /\ th'[s].pc = "idle"
                      /\ Len(send'[s]) > Len(send[s])
                            => Enqueued(s).action = "error"
                      /\ \A c \in Sessions \ {s} : send'[c] = send[c]
             /\ Len(send'[s]) > Len(send[s])
                  /\ Enqueued(s).action \in {"content_changed", "changes_applied"}
                   => \E o \in Sessions :
                         /\ th[o].op = "apply" /\ th[o].err = "ok"
                         /\ Enqueued(s).item = th[o].item
                         /\ Enqueued(s).ver \in CommittedBy(o, th[o].item)
                         /\ Enqueued(s).action = "changes_applied" <=> o = s]_vars

\* A content_changed has reached a subscriber and a call that returned an
\* error has been answered.
C37_Witness ==
    \E s, t \in Sessions :
        /\ received[s] # <<>>
        /\ \E k \in DOMAIN send[t] : send[t][k].action = "error"

\* -------------------------------------------------- the originator's reply
\* The handler of s takes the result of a successful ApplyItemChanges while
\* the queue of s is open.
RepliesToApply(s) ==
    /\ th[s].pc = "done" /\ th[s].op = "apply" /\ th[s].err = "ok"
    /\ th'[s] # th[s]
    /\ conn[s] = "open"

\* C38: a successful applyChanges of a connected session enqueues exactly
\* one changes_applied, with the new version, to that session; a full queue
\* does not lose it.
C38_ReplyNeverLost ==
    [][\A s \in Sessions :
          RepliesToApply(s)
             => /\ Len(send'[s]) = Len(send[s]) + 1
                /\ Enqueued(s).action = "changes_applied"
                /\ Enqueued(s).ver = th[s].ver]_vars

\* ------------------------------------------- DeleteItem of a missing item
\* Calls made from the state of InitCache when a delete is repeated.
MaxRepeatCalls == 3

RepeatGetItemContent(s) ==
    \E i \in ItemIds :
        /\ BeginWithin(s, Call(Creator, "get", i), MaxRepeatCalls)

FirstDeleteItem(s) ==
    \E i \in ItemIds :
        /\ meta[i].exists
        /\ BeginWithin(s, Call(Creator, "delete", i), MaxRepeatCalls)

\* A DeleteItem issued when the item's metadata does not exist and the
\* DeleteItem that deleted it has returned; the call carries the mark
\* "absent" (kept in touched).
RepeatedDeleteItem(s) ==
    \E i \in ItemIds :
        /\ ~meta[i].exists
        /\ DeleteReturned(i)
        /\ BeginWithin(s, [Call(Creator, "delete", i) EXCEPT !.touched = {"absent"}],
                       MaxRepeatCalls)

\* The steps of GetItemContent and DeleteItem. The content cache is emptied
\* only after the blob is deleted, so no download succeeds here and
\* GetItemContent never reaches its SetItemContent.
StepRepeat(s) ==
    \/ MetaCacheGet(s) \/ MetaDbGet(s) \/ MetaCacheSet(s)
    \/ ContentCacheGet(s) \/ DownloadFile(s)
    \/ DeletePostMeta(s) \/ DeleteFile(s) \/ LogDelete(s)
    \/ CacheDeleteItemMeta(s) \/ CacheInvalidateItemContent(s)
    \/ ResetCounter(s)

NextRepeat ==
    \E s \in Callers :
        \/ RepeatGetItemContent(s) \/ FirstDeleteItem(s) \/ RepeatedDeleteItem(s)
        \/ StepRepeat(s)
        \/ Finish(s)

SpecRepeat == InitCache /\ [][NextRepeat]_vars

\* C39: a DeleteItem of an item whose metadata does not exist returns
\* success and deletes no blob, appends no history entry and does not touch
\* the snapshot counter or the metadata.
C39_DeleteOfMissingItemIsNoOp ==
    [][\A s \in Callers :
          "absent" \in th[s].touched /\ th'[s] # th[s]
             => /\ UNCHANGED <<meta, storage, history, historyItems, changeCounters>>
                /\ th'[s].pc = "done" => th'[s].err = "ok"]_vars

\* ----------------------------------------------- the counter and its range
\* The call of s has crossed the threshold and has not yet appended its
\* snapshot entry.
SnapshotDue(s) == th[s].pc \in {"snap_unlock_log", "log_snapshot"}

\* The step appends one entry to the history.
Appends == Len(history') = Len(history) + 1

====
